---- MODULE Spec2Model ----
(***************************************************************************)
(* A model of p2psync: the download executor (downloader/executor.rs),     *)
(* the download planner (downloader/planer.rs), the virtual file system    *)
(* of the serving peer (server/fs.rs), the bounded spawner                 *)
(* (utils/limited_spawner.rs), the tracker (tracker.rs) and the heartbeat  *)
(* emitter (server/heart_beater.rs).                                       *)
(*                                                                         *)
(* SpecExec models execute_actions together with the tasks it spawns;      *)
(* SpecPlan models Planer::plan; SpecVfs models VirtualFileSystem;         *)
(* SpecSpawner models LimitedSpawner; SpecTracker models TrackerState;     *)
(* SpecHeartbeat models HeartBeater, and SpecHeartbeatFair adds what the   *)
(* runtime guarantees about its tasks.  Each specification leaves the      *)
(* variables of the other subsystems at their initial (idle) values.       *)
(***************************************************************************)
EXTENDS Integers, Sequences, FiniteSets, TLC

(***************************************************************************)
(* Bounds of the model.                                                    *)
(***************************************************************************)
\* longest action list handed to execute_actions
MaxActions == 2
\* largest value of the concurrency argument
MaxConcurrency == 1
\* longest shared peer list of an executor input
MaxPeers == 3
\* most trackers given to the planner
MaxTrackers == 2
\* most peer addresses the trackers know
MaxDiscovered == 2
\* most nodes in the tree of the requested digest
MaxNodes == 3
\* how far past the end of the peer list the peer_id of an executor input may lie
PeerIdSlack == 1
\* most download attempts one run can make: (number of Download actions) *
\* (length of the peer list)
MaxAttempts == 3
\* most bytes a peer sends in one response body
MaxBody == 2
\* most bytes in one body chunk
MaxChunk == 2
\* size of the digest space (stands for the 2^128 values of MD5)
DigestSpace == 5
\* BUFFER_SIZE of download_and_check (4 MiB in the source), scaled down
BUFFER_SIZE == 2
\* most host entries (files, directories, others) under the paths handed to add
MaxHostNodes == 3
\* most calls of seal on one VirtualFileSystem
MaxSeals == 2
\* largest capacity of a LimitedSpawner
MaxCapacity == 2
\* most calls of spawn on one LimitedSpawner
MaxSpawns == 4
\* the last second of the tracker's clock
MaxTime == 5
\* most peer addresses announcing to the tracker
MaxTrkPeers == 2
\* most announces waiting for the write lock at once
MaxInflight == 2
\* the timeout of cleanup_peers (300 s in the source), scaled down
CleanupTimeout == 3
\* the trackers a HeartBeater is given
MaxHbTrackers == 2
\* the announces sent to a tracker are counted modulo HbWindow
HbWindow == 3

Bytes == {0, 1}

AllPeers == <<"A", "B", "C", "D">>

\* the sequences over S of length lo..hi
SeqsOf(S, lo, hi) == UNION {[1..n -> S] : n \in lo..hi}

(***************************************************************************)
(* MD5 (md5::Context): new, consume, compute, and the "{:x}" rendering.    *)
(***************************************************************************)
Md5New == 0

Md5ConsumeByte(ctx, b) == (ctx * 2 + b + 1) % DigestSpace

RECURSIVE Md5Consume(_, _)
Md5Consume(ctx, data) ==
    IF data = <<>> THEN ctx
    ELSE Md5Consume(Md5ConsumeByte(ctx, Head(data)), Tail(data))

HexDigits == <<"0", "1", "2", "3", "4", "5", "6", "7",
               "8", "9", "a", "b", "c", "d", "e", "f">>

\* format!("{:x}", ctx.compute())
Md5Hex(ctx) == HexDigits[ctx + 1]

Md5Of(data) == Md5Hex(Md5Consume(Md5New, data))

\* contents of the files a tree may hold
FileContents == {<<0>>, <<1, 0>>}

ExpectedMd5s == {Md5Of(c) : c \in FileContents}

(***************************************************************************)
(* State.                                                                  *)
(***************************************************************************)
VARIABLES
    \* ---- execute_actions ----
    actions,        \* the plan: a sequence of Action values
    peers,          \* the peer list shared by every Download (Arc<RwLock<Vec>>)
    concurrency,    \* the concurrency argument
    epc,            \* position of execute_actions: "loop","await_loop","drain","await_drain","done"
    next_action,    \* index of the action the for loop is at
    handles,        \* VecDeque of join handles (task = index of its action)
    awaiting,       \* the handle popped and being awaited, 0 if none
    errs,           \* Vec of JoinErrors collected by execute_actions
    exec_result,    \* "none", "Ok" or "Err"
    exec_log,       \* history: the spawns and the completed awaits of execute_actions, in order
    \* ---- the spawned tasks (execute_action / download_and_check) ----
    tasks,          \* task id -> record of its locals and position
    files,          \* output path -> file contents, or NoFile
    dirs,           \* the paths of the directories created so far
    pbar_poisoned   \* the progress mutex was poisoned by a panic under the lock

execVars == <<actions, peers, concurrency, epc, next_action, handles, awaiting,
              errs, exec_result, exec_log, tasks, files, dirs, pbar_poisoned>>

VARIABLES
    \* ---- Planer::plan ----
    tracker_urls,   \* Planer.tracker_urls
    ref_tree,       \* the Lookup view of the requested digest held by the peers that are right
    ppc,            \* position of plan: "trackers", "peers", "done"
    tracker_idx,    \* index of the tracker the first loop is at
    peers_set,      \* HashSet of the discovered addresses
    tracker_errs,   \* errs of the discovery block
    plan_peers,     \* `peers`: the frozen list of discovered peers
    query_idx,      \* index of the peer the second loop is at
    tree_and_peer,  \* Vec of (peer, tree) of the peers that answered
    query_errs,     \* errs of the tree block
    plan_result,    \* what plan returned
    queries         \* history: the peers queried and what each answered

planVars == <<tracker_urls, ref_tree, ppc, tracker_idx, peers_set, tracker_errs,
              plan_peers, query_idx, tree_and_peer, query_errs, plan_result, queries>>

VARIABLES
    \* ---- VirtualFileSystem (server/fs.rs) and the host paths it is built from ----
    host_roots,     \* the host entries whose paths are handed to add, in order
    next_root,      \* index of the next path to add
    items,          \* VirtualFileSystem.items
    md5_to_id,      \* VirtualFileSystem.md5_to_id: a set of pairs <<md5, id>>
    vfs_ops,        \* history: the calls of add and seal made so far, with their results
    vfs_reply,      \* what the last lookup or file_path since the last add or seal returned
    svr_reply       \* the response to the last GET /query or /download since then

vfsVars == <<host_roots, next_root, items, md5_to_id, vfs_ops, vfs_reply, svr_reply>>

VARIABLES
    \* ---- LimitedSpawner (utils/limited_spawner.rs) ----
    sp_capacity,    \* max_concurrent, the permits of the semaphore at construction
    sp_permits,     \* the permits the semaphore has available
    sp_waiters,     \* the calls of spawn waiting in acquire_owned, oldest first
    sp_calls,       \* the calls of spawn in the order they were made: where each one is
    sp_grants,      \* history: the calls in the order they got their permit
    sp_starts       \* history: the calls in the order they started their task

spVars == <<sp_capacity, sp_permits, sp_waiters, sp_calls, sp_grants, sp_starts>>

VARIABLES
    \* ---- the tracker (tracker.rs) ----
    trk_now,        \* the system clock of the tracker's host, in seconds
    trk_peers,      \* TrackerState.peers: a set of pairs <<addr, last_seen>>
    trk_announces,  \* the announces that have taken their timestamp and wait for the write lock
    trk_cleanup,    \* the cleanup task: where it is, and the current_time it has read
    trk_pass,       \* history: the cleanup pass just made (its time, the registry before and after)
    trk_listed,     \* what the get_peers just made returned
    trk_wrote       \* history: the announce just written (its record, the registry before and after)

trkVars == <<trk_now, trk_peers, trk_announces, trk_cleanup, trk_pass, trk_listed, trk_wrote>>

VARIABLES
    \* ---- the heartbeat emitter (server/heart_beater.rs) ----
    hb_tasks,       \* one record per tracker: the task spawned for it
    hb_stop         \* stop(): 0 not called, i the handle it aborts next, Len(hb_tasks) + 1 returned

hbVars == <<hb_tasks, hb_stop>>

vars == <<execVars, planVars, vfsVars, spVars, trkVars, hbVars>>

\* the variables each subsystem leaves alone
outsideExec == <<planVars, vfsVars, spVars, trkVars, hbVars>>
outsidePlan == <<execVars, vfsVars, spVars, trkVars, hbVars>>
outsideVfs == <<execVars, planVars, spVars, trkVars, hbVars>>
outsideSp == <<execVars, planVars, vfsVars, trkVars, hbVars>>
outsideTrk == <<execVars, planVars, vfsVars, spVars, hbVars>>
outsideHb == <<execVars, planVars, vfsVars, spVars, trkVars>>

\* the contents of a path at which there is no file
NoFile == <<-1>>

(***************************************************************************)
(* Action (planer.rs).  A path is the sequence of its components.          *)
(***************************************************************************)
MakeDirAction(path) == [kind |-> "MakeDir", path |-> path, peer_id |-> 0, md5 |-> ""]

DownloadAction(peer_id, path, md5) ==
    [kind |-> "Download", path |-> path, peer_id |-> peer_id, md5 |-> md5]

\* PathBuf::join, for a name of one normal component
PathJoin(prefix, name) == Append(prefix, name)

\* Path::parent
PathParent(path) == SubSeq(path, 1, Len(path) - 1)

\* the output paths of an executor input: the entries of one directory
EntryNames == <<"e1", "e2", "e3", "e4">>

OutPath(i) == <<".", "root", EntryNames[i]>>

\* the actions a plan over n peers may hold at position i; peer_id is not
\* confined to 0..n-1
ActionInputs(n, i) ==
    {MakeDirAction(OutPath(i))} \cup
    {DownloadAction(p, OutPath(i), d) : p \in 0..(n - 1 + PeerIdSlack), d \in ExpectedMd5s}

\* the plans of at most MaxActions actions over n peers
PlanInputs(n) ==
    UNION {{as \in [1..k -> UNION {ActionInputs(n, i) : i \in 1..k}] :
              \A i \in 1..k : as[i] \in ActionInputs(n, i)} : k \in 0..MaxActions}

PeerLists == {SubSeq(AllPeers, 1, n) : n \in 1..MaxPeers}

Downloads(as) == {i \in 1..Len(as) : as[i].kind = "Download"}

\* the inputs of execute_actions: a plan and the peer list its Downloads share
ExecInputs ==
    UNION {{<<as, ps>> : as \in {x \in PlanInputs(Len(ps)) :
                                    Cardinality(Downloads(x)) * Len(ps) <= MaxAttempts}}
           : ps \in PeerLists}

(***************************************************************************)
(* DownloadURLs: the iterator over the URLs of one Download.               *)
(***************************************************************************)
\* format!("{}/download?md5={}", peer, md5)
DownloadURL(peer, md5) == <<peer, "/download?md5=", md5>>

DownloadURLsOffsetNoCur(ps, peer_id, cur) == peer_id % Len(ps)

\* the offset computed by DownloadURLs::next
DownloadURLsOffset(ps, peer_id, cur) == (peer_id + cur) % Len(ps)

\* Option::None of the iterator
NoURL == <<>>

\* DownloadURLs::next: the item yielded at position cur, or None
DownloadURLsNext(ps, peer_id, md5, cur) ==
    IF cur >= Len(ps) THEN NoURL
    ELSE DownloadURL(ps[DownloadURLsOffset(ps, peer_id, cur) + 1], md5)

\* everything the iterator yields, from position cur until it returns None
RECURSIVE DownloadURLsCollect(_, _, _, _)
DownloadURLsCollect(ps, peer_id, md5, cur) ==
    LET item == DownloadURLsNext(ps, peer_id, md5, cur)
    IN  IF item = NoURL THEN <<>>
        ELSE <<item>> \o DownloadURLsCollect(ps, peer_id, md5, cur + 1)

(***************************************************************************)
(* Tasks.                                                                  *)
(***************************************************************************)
\* pc: "unspawned", "mkdir", "parent", "next_url", "send", "create",
\*     "chunk", "done"
\* res: "none" while running; "ok" = Ok(Ok(())), "err" = Ok(Err(_)),
\*      "panic" = Err(JoinError)
\* peers_vec: the snapshot of the shared list; cur: DownloadURLs.cur;
\* url: the URL of the attempt in progress; errs: the errors of the failed
\* attempts; buffer, md5_context: locals of download_and_check.
\* History kept for the properties: urls = the URLs download_and_check was
\* called with, received = the bytes of the body received in the current
\* attempt, parent_failed = create_dir_all(parent) failed, held_at_await =
\* the locks the task held at a suspension point it has reached.
TaskInit ==
    [pc |-> "unspawned", peers_vec |-> <<>>, cur |-> 0, url |-> NoURL, urls |-> <<>>,
     errs |-> <<>>, buffer |-> <<>>, md5_context |-> Md5New, received |-> <<>>,
     parent_failed |-> FALSE, held_at_await |-> {}, res |-> "none"]

TaskIds == 1..Len(actions)

\* a Lookup view that stands for "no tree"
NoTree == [type |-> "None", name |-> "", md5 |-> "", size |-> 0, children |-> <<>>]

NoResult == [status |-> "none", error |-> "", errs |-> <<>>, actions |-> <<>>, peers |-> <<>>,
             tree |-> NoTree]

\* the planner before plan is called (and in the runs of the other subsystems)
PlanIdle ==
    /\ tracker_urls = <<>>
    /\ ref_tree = NoTree
    /\ ppc = "idle"
    /\ tracker_idx = 1
    /\ peers_set = {}
    /\ tracker_errs = <<>>
    /\ plan_peers = <<>>
    /\ query_idx = 1
    /\ tree_and_peer = <<>>
    /\ query_errs = <<>>
    /\ plan_result = NoResult
    /\ queries = <<>>

\* the executor before execute_actions is called
ExecIdle ==
    /\ actions = <<>>
    /\ peers = <<>>
    /\ concurrency = 0
    /\ epc = "idle"
    /\ next_action = 1
    /\ handles = <<>>
    /\ awaiting = 0
    /\ errs = <<>>
    /\ exec_result = "none"
    /\ exec_log = <<>>
    /\ tasks = <<>>
    /\ files = <<>>
    /\ dirs = {}
    /\ pbar_poisoned = FALSE

\* VirtualFileSystem::new, with no path to add
NoReply == [call |-> "none", md5 |-> "", status |-> "none", path |-> <<>>, view |-> NoTree]
NoParam == "absent"
NoResponse == [route |-> "none", md5 |-> NoParam, status |-> 0, json |-> NoTree, body |-> <<>>]

VfsIdle ==
    /\ host_roots = <<>>
    /\ next_root = 1
    /\ items = <<>>
    /\ md5_to_id = {}
    /\ vfs_ops = <<>>
    /\ vfs_reply = NoReply
    /\ svr_reply = NoResponse

\* no LimitedSpawner in use
SpIdle ==
    /\ sp_capacity = 0
    /\ sp_permits = 0
    /\ sp_waiters = <<>>
    /\ sp_calls = <<>>
    /\ sp_grants = <<>>
    /\ sp_starts = <<>>

CleanupIdle == [pc |-> "idle", current_time |-> 0]

NoPass == [made |-> FALSE, now |-> 0, before |-> {}, after |-> {}, panicked |-> FALSE]

NotListed == [made |-> FALSE, peers |-> <<>>]

NoWrite == [made |-> FALSE, addr |-> "", last_seen |-> 0, before |-> {}, after |-> {}]

\* no tracker running
TrkIdle ==
    /\ trk_now = 0
    /\ trk_peers = {}
    /\ trk_announces = {}
    /\ trk_cleanup = CleanupIdle
    /\ trk_pass = NoPass
    /\ trk_listed = NotListed
    /\ trk_wrote = NoWrite

\* no HeartBeater made
HbIdle ==
    /\ hb_tasks = <<>>
    /\ hb_stop = 0

InitExec ==
    /\ PlanIdle
    /\ VfsIdle
    /\ SpIdle
    /\ TrkIdle
    /\ HbIdle
    /\ \E in \in ExecInputs : actions = in[1] /\ peers = in[2]
    /\ concurrency \in 0..MaxConcurrency
    /\ epc = "loop"
    /\ next_action = 1
    /\ handles = <<>>
    /\ awaiting = 0
    /\ errs = <<>>
    /\ exec_result = "none"
    /\ exec_log = <<>>
    /\ tasks = [t \in 1..Len(actions) |-> TaskInit]
    /\ files = [p \in {actions[t].path : t \in 1..Len(actions)} |-> NoFile]
    /\ dirs = {}
    /\ pbar_poisoned = FALSE

(***************************************************************************)
(* execute_actions.                                                        *)
(***************************************************************************)
\* an entry of exec_log: task t was spawned, or the await of its handle completed
LogEvent(ev, t) == [ev |-> ev, task |-> t]

PopBack(h) == <<h[Len(h)], SubSeq(h, 1, Len(h) - 1)>>

\* handles.pop_front(): the handle popped and the handles left
PopFront(h) == <<Head(h), Tail(h)>>

\* the first pc of the task spawned for an action
TaskStart(a) == IF a.kind = "MakeDir" THEN "mkdir" ELSE "parent"

\* for action in actions { handles.push_back(tokio::spawn(..)); if handles.len() > concurrency {pop} .. }
Spawn ==
    /\ epc = "loop"
    /\ next_action <= Len(actions)
    /\ tasks' = [tasks EXCEPT ![next_action].pc = TaskStart(actions[next_action])]
    /\ exec_log' = Append(exec_log, LogEvent("spawn", next_action))
    /\ LET pushed == Append(handles, next_action)
       IN  IF Len(pushed) > concurrency
           THEN /\ awaiting' = PopFront(pushed)[1]
                /\ handles' = PopFront(pushed)[2]
                /\ epc' = "await_loop"
                /\ UNCHANGED next_action
           ELSE \* errs is empty here: the loop breaks as soon as it is not
                /\ handles' = pushed
                /\ next_action' = next_action + 1
                /\ UNCHANGED <<awaiting, epc>>
    /\ UNCHANGED <<outsideExec, actions, peers, concurrency, errs, exec_result, files, dirs, pbar_poisoned>>

\* what `if let Err(err) = handle.await { errs.push(err) }` leaves in errs
AwaitErrs(t) == IF tasks[t].res = "panic" THEN Append(errs, t) ELSE errs

\* the await inside the for loop completes; then `if !errs.is_empty() { break }`
AwaitInLoop ==
    /\ epc = "await_loop"
    /\ tasks[awaiting].res # "none"
    /\ errs' = AwaitErrs(awaiting)
    /\ exec_log' = Append(exec_log, LogEvent("await", awaiting))
    /\ awaiting' = 0
    /\ IF errs' # <<>>
       THEN epc' = "drain" /\ UNCHANGED next_action
       ELSE epc' = "loop" /\ next_action' = next_action + 1
    /\ UNCHANGED <<outsideExec, actions, peers, concurrency, handles, exec_result, tasks, files, dirs, pbar_poisoned>>

\* the for loop ends because the actions are exhausted
LoopEnd ==
    /\ epc = "loop"
    /\ next_action > Len(actions)
    /\ epc' = "drain"
    /\ UNCHANGED <<outsideExec, actions, peers, concurrency, next_action, handles, awaiting, errs,
                   exec_result, exec_log, tasks, files, dirs, pbar_poisoned>>

\* while let Some(handle) = handles.pop_front()
DrainPop ==
    /\ epc = "drain"
    /\ handles # <<>>
    /\ awaiting' = PopFront(handles)[1]
    /\ handles' = PopFront(handles)[2]
    /\ epc' = "await_drain"
    /\ UNCHANGED <<outsideExec, actions, peers, concurrency, next_action, errs, exec_result,
                   exec_log, tasks, files, dirs, pbar_poisoned>>

AwaitInDrain ==
    /\ epc = "await_drain"
    /\ tasks[awaiting].res # "none"
    /\ errs' = AwaitErrs(awaiting)
    /\ exec_log' = Append(exec_log, LogEvent("await", awaiting))
    /\ awaiting' = 0
    /\ epc' = "drain"
    /\ UNCHANGED <<outsideExec, actions, peers, concurrency, next_action, handles, exec_result, tasks,
                   files, dirs, pbar_poisoned>>

\* if !errs.is_empty() { return Err("Some tasks failed: ..") }  Ok(())
Return ==
    /\ epc = "drain"
    /\ handles = <<>>
    /\ exec_result' = IF errs # <<>> THEN "Err" ELSE "Ok"
    /\ epc' = "done"
    /\ UNCHANGED <<outsideExec, actions, peers, concurrency, next_action, handles, awaiting, errs,
                   exec_log, tasks, files, dirs, pbar_poisoned>>

execFrame == <<actions, peers, concurrency, epc, next_action, handles, awaiting, errs, exec_result,
               exec_log, outsideExec>>

(***************************************************************************)
(* execute_action and download_and_check, run by task t.                   *)
(***************************************************************************)
\* the directories after a successful fs::create_dir_all(path): the path
\* and every missing ancestor of it
CreateDirAll(ds, path) == ds \cup {SubSeq(path, 1, k) : k \in 2..Len(path)}

\* Action::MakeDir { path } => fs::create_dir_all(path).await?
MakeDir(t) ==
    /\ tasks[t].pc = "mkdir"
    /\ \E ok \in BOOLEAN :
          /\ dirs' = IF ok THEN CreateDirAll(dirs, actions[t].path) ELSE dirs
          /\ tasks' = [tasks EXCEPT ![t].pc = "done",
                                    ![t].res = IF ok THEN "ok" ELSE "err"]
    /\ UNCHANGED <<execFrame, files, pbar_poisoned>>

\* the head of `for url in urls`: the next URL, or the failure of the action
\* ("All download attempts failed: ..") when the iterator is exhausted
ForUrl(tk, a) ==
    LET item == DownloadURLsNext(tk.peers_vec, a.peer_id, a.md5, tk.cur)
    IN  IF item = NoURL
        THEN [tk EXCEPT !.pc = "done", !.res = "err", !.url = NoURL]
        ELSE [tk EXCEPT !.pc = "send", !.cur = tk.cur + 1, !.url = item,
                        !.urls = Append(tk.urls, item)]

\* the locals of download_and_check are dropped when it returns
DropLocals(tk) == [tk EXCEPT !.buffer = <<>>, !.md5_context = Md5New]

AttemptFailedGiveUp(tk, a, e) ==
    [DropLocals(tk) EXCEPT !.errs = Append(tk.errs, e), !.received = <<>>,
                           !.pc = "done", !.res = "err"]

\* download_and_check returned Err(e): errs.push(err), then the next URL
AttemptFailed(tk, a, e) ==
    ForUrl([DropLocals(tk) EXCEPT !.errs = Append(tk.errs, e), !.received = <<>>], a)

(***************************************************************************)
(* Locks.  What a task does with its locks between two suspension points   *)
(* is a trace of events <<"lock", l>>, <<"unlock", l>> (the guard is        *)
(* dropped) and <<"await", what>> (a suspension point), in program order.  *)
(***************************************************************************)
\* the locks held after the events of a trace
RECURSIVE HeldAfter(_)
HeldAfter(trace) ==
    IF trace = <<>> THEN {}
    ELSE LET before == HeldAfter(SubSeq(trace, 1, Len(trace) - 1))
             e == trace[Len(trace)]
         IN  IF e[1] = "lock" THEN before \cup {e[2]}
             ELSE IF e[1] = "unlock" THEN before \ {e[2]}
             ELSE before

\* the locks held at some suspension point of a trace
HeldAtAwaits(trace) ==
    UNION {HeldAfter(SubSeq(trace, 1, i)) : i \in {j \in 1..Len(trace) : trace[j][1] = "await"}}

\* let peers_vec = { let peers_read_guard = peers.read()..?; peers_read_guard.clone() };
\* then the first URL and download_and_check up to client.get(url).send().await
SnapshotEvents ==
    << <<"lock", "peers">>, <<"unlock", "peers">>, <<"await", "send">> >>

ChunkEventsGuardKept(full) ==
    << <<"lock", "pbar">> >>
        \o (IF full THEN << <<"await", "write_all">> >> ELSE <<>>)
        \o << <<"unlock", "pbar">>, <<"await", "chunk">> >>

\* pbar.lock().unwrap().update(chunk.len())?; the guard is a temporary of
\* that statement; then write_all(&buffer).await if the buffer is full, and
\* resp.chunk().await at the head of the loop
ChunkEvents(full) ==
    << <<"lock", "pbar">>, <<"unlock", "pbar">> >>
        \o (IF full THEN << <<"await", "write_all">> >> ELSE <<>>)
        \o << <<"await", "chunk">> >>

ReadCloneRotated(ps) == IF ps = <<>> THEN ps ELSE Append(Tail(ps), Head(ps))

\* peers_read_guard.clone()
ReadClone(ps) == ps

\* fs::create_dir_all(parent).await?; peers_vec = peers.read().clone()
\* (the lock is never write-locked, so never poisoned)
CreateParent(t) ==
    /\ tasks[t].pc = "parent"
    /\ \E ok \in BOOLEAN :
          IF ok
          THEN /\ dirs' = CreateDirAll(dirs, PathParent(actions[t].path))
               /\ tasks' = [tasks EXCEPT ![t] =
                               ForUrl([tasks[t] EXCEPT
                                          !.peers_vec = ReadClone(peers),
                                          !.held_at_await = @ \cup HeldAtAwaits(SnapshotEvents)],
                                      actions[t])]
          ELSE /\ dirs' = dirs
               /\ tasks' = [tasks EXCEPT ![t].pc = "done", ![t].res = "err",
                                         ![t].parent_failed = TRUE]
    /\ UNCHANGED <<execFrame, files, pbar_poisoned>>

\* client.get(url).send().await?
Send(t) ==
    /\ tasks[t].pc = "send"
    /\ \E ok \in BOOLEAN :
          tasks' = [tasks EXCEPT ![t] =
                      IF ok THEN [tasks[t] EXCEPT !.pc = "create"]
                      ELSE AttemptFailed(tasks[t], actions[t], "io")]
    /\ UNCHANGED <<execFrame, files, dirs, pbar_poisoned>>

FileCreateKeep(old) == IF old = NoFile THEN <<>> ELSE old

\* what fs::File::create leaves in a file that held `old`
FileCreate(old) == <<>>

\* fs::File::create(file_path).await?; md5::Context::new(); Vec::with_capacity(..)
Create(t) ==
    /\ tasks[t].pc = "create"
    /\ \E ok \in BOOLEAN :
          IF ok
          THEN /\ files' = [files EXCEPT ![actions[t].path] = FileCreate(@)]
               /\ tasks' = [tasks EXCEPT ![t].pc = "chunk", ![t].buffer = <<>>,
                                         ![t].md5_context = Md5New, ![t].received = <<>>]
          ELSE /\ files' = files
               /\ tasks' = [tasks EXCEPT ![t] = AttemptFailed(tasks[t], actions[t], "io")]
    /\ UNCHANGED <<execFrame, dirs, pbar_poisoned>>

Chunks == SeqsOf(Bytes, 1, MaxChunk)

\* resp.chunk().await? returned Some(chunk): one turn of the while loop.
\* pbar: "ok", "err" (update returned an error) or "panic" (update panicked
\* under the lock); write_ok: the outcome of write_all when the buffer is full.
Chunk(t) ==
    /\ tasks[t].pc = "chunk"
    /\ \E chunk \in Chunks, pbar \in {"ok", "err", "panic"}, write_ok \in BOOLEAN :
          LET tk == tasks[t]
              buf == tk.buffer \o chunk
              got == [tk EXCEPT !.md5_context = Md5Consume(tk.md5_context, chunk),
                                !.received = tk.received \o chunk,
                                !.held_at_await =
                                    @ \cup HeldAtAwaits(ChunkEvents(Len(buf) >= BUFFER_SIZE))]
          IN  /\ Len(tk.received) + Len(chunk) <= MaxBody
              /\ IF pbar_poisoned \/ pbar = "panic"
                 THEN \* pbar.lock().unwrap() on a poisoned mutex, or a panic in update
                      /\ pbar_poisoned' = TRUE
                      /\ files' = files
                      /\ tasks' = [tasks EXCEPT ![t] =
                                      [DropLocals(got) EXCEPT !.received = <<>>, !.pc = "done", !.res = "panic"]]
                 ELSE /\ pbar_poisoned' = pbar_poisoned
                      /\ IF pbar = "err"
                         THEN /\ files' = files
                              /\ tasks' = [tasks EXCEPT ![t] =
                                              AttemptFailed([got EXCEPT !.buffer = buf], actions[t], "io")]
                         ELSE IF Len(buf) >= BUFFER_SIZE
                         THEN IF write_ok
                              THEN /\ files' = [files EXCEPT ![actions[t].path] = @ \o buf]
                                   /\ tasks' = [tasks EXCEPT ![t] = [got EXCEPT !.buffer = <<>>]]
                              ELSE /\ files' = files
                                   /\ tasks' = [tasks EXCEPT ![t] =
                                                   AttemptFailed([got EXCEPT !.buffer = buf], actions[t], "io")]
                         ELSE /\ files' = files
                              /\ tasks' = [tasks EXCEPT ![t] = [got EXCEPT !.buffer = buf]]
    /\ UNCHANGED <<execFrame, dirs>>

\* resp.chunk().await? returned an error
ChunkError(t) ==
    /\ tasks[t].pc = "chunk"
    /\ tasks' = [tasks EXCEPT ![t] = AttemptFailed(tasks[t], actions[t], "io")]
    /\ UNCHANGED <<execFrame, files, dirs, pbar_poisoned>>

\* the file after `if !buffer.is_empty() { output_file.write_all(&buffer) }`
WriteRemaining(file, buffer) == IF buffer # <<>> THEN file \o buffer ELSE file

\* md5 != format!("{:x}", md5_context.compute())
Md5Mismatch(md5, ctx) == md5 # Md5Hex(ctx)

\* resp.chunk() returned None: write the rest, flush, compare the digests
EndOfStream(t) ==
    /\ tasks[t].pc = "chunk"
    /\ \E io_ok \in BOOLEAN :
          LET tk == tasks[t]
          IN  IF ~io_ok
              THEN /\ files' = files
                   /\ tasks' = [tasks EXCEPT ![t] = AttemptFailed(tk, actions[t], "io")]
              ELSE /\ files' = [files EXCEPT ![actions[t].path] = WriteRemaining(@, tk.buffer)]
                   /\ tasks' = [tasks EXCEPT ![t] =
                                   IF Md5Mismatch(actions[t].md5, tk.md5_context)
                                   THEN AttemptFailed(tk, actions[t], "md5 mismatch")
                                   ELSE [DropLocals(tk) EXCEPT !.pc = "done", !.res = "ok"]]
    /\ UNCHANGED <<execFrame, dirs, pbar_poisoned>>

TaskStep(t) ==
    \/ MakeDir(t)
    \/ CreateParent(t)
    \/ Send(t)
    \/ Create(t)
    \/ Chunk(t)
    \/ ChunkError(t)
    \/ EndOfStream(t)

NextExec ==
    \/ Spawn
    \/ AwaitInLoop
    \/ LoopEnd
    \/ DrainPop
    \/ AwaitInDrain
    \/ Return
    \/ \E t \in TaskIds : TaskStep(t)

SpecExec == InitExec /\ [][NextExec]_vars

(***************************************************************************)
(* Properties of the executor.                                             *)
(***************************************************************************)
Spawned(t) == tasks[t].pc # "unspawned"

IsDownload(t) == actions[t].kind = "Download"

\* the tasks spawned and not yet awaited by execute_actions
InFlight == {handles[i] : i \in 1..Len(handles)} \cup ({awaiting} \ {0})

\* the URL the rotation is specified to yield at position i (from 0)
RotationURL(t, i) ==
    <<peers[((actions[t].peer_id + i) % Len(peers)) + 1], "/download?md5=", actions[t].md5>>

\* C1: when execute_actions has returned, it returned Err if some dispatched
\* action ended in failure, and it returned Ok only if every dispatched
\* action succeeded.
C1_FailureIsReported ==
    epc = "done" =>
        /\ (\E t \in TaskIds : Spawned(t) /\ tasks[t].res = "err") => exec_result = "Err"
        /\ exec_result = "Ok" => \A t \in TaskIds : Spawned(t) => tasks[t].res = "ok"

\* C2: when a Download has completed successfully, the file at its path holds
\* exactly the bytes received in the successful attempt, and the digest of
\* the file equals the expected digest (so nothing an earlier, failed
\* attempt wrote is left in it).
C2_FileIsVerifiedBody ==
    \A t \in TaskIds :
        (IsDownload(t) /\ tasks[t].res = "ok") =>
            /\ files[actions[t].path] = tasks[t].received
            /\ Md5Of(files[actions[t].path]) = actions[t].md5

\* a Download succeeded on its second attempt after a first attempt that
\* wrote a non-empty body (the empty body has digest Md5Of(<<>>)) and then
\* failed the digest check
C2_Witness ==
    \E t \in TaskIds :
        /\ IsDownload(t) /\ tasks[t].res = "ok"
        /\ actions[t].md5 = Md5Of(<<>>)
        /\ tasks[t].errs = <<"md5 mismatch">>
        /\ Len(files[actions[t].path]) = 2

\* the part of C3 that the original and the amended claim share: the peers
\* are tried one at a time, in rotation order, and a success is the first
\* attempt that passes
C3_OneAtATime(t) ==
    /\ \A i \in 1..Len(tasks[t].urls) : tasks[t].urls[i] = RotationURL(t, i - 1)
    /\ Len(tasks[t].urls) <= Len(peers)
    /\ tasks[t].pc \in {"send", "create", "chunk"} => Len(tasks[t].urls) = Len(tasks[t].errs) + 1
    /\ tasks[t].res = "ok" => Len(tasks[t].urls) = Len(tasks[t].errs) + 1

\* C3 (as claimed): a Download tries its peers one at a time in rotation
\* order, succeeds at the first attempt that passes, and fails only after
\* every peer was tried and failed, with one error per attempt.
C3_FailsOnlyAfterAllPeers ==
    \A t \in TaskIds :
        IsDownload(t) =>
            /\ C3_OneAtATime(t)
            /\ tasks[t].res = "err" =>
                  Len(tasks[t].urls) = Len(peers) /\ Len(tasks[t].errs) = Len(peers)

\* C3 (amended): as above, except that a Download also fails, before any
\* peer is contacted, when creating the parent directory fails.
C3_FailsAfterAllPeersOrParent ==
    \A t \in TaskIds :
        IsDownload(t) =>
            /\ C3_OneAtATime(t)
            /\ tasks[t].res = "err" =>
                  \/ tasks[t].parent_failed /\ tasks[t].urls = <<>> /\ tasks[t].errs = <<>>
                  \/ /\ ~tasks[t].parent_failed
                     /\ Len(tasks[t].urls) = Len(peers)
                     /\ Len(tasks[t].errs) = Len(peers)

\* peers [A, B], peer_id 0: A's bytes failed the digest check, B's matched
C3_Witness ==
    \E t \in TaskIds :
        /\ IsDownload(t) /\ peers = <<"A", "B">> /\ actions[t].peer_id = 0
        /\ tasks[t].urls = <<DownloadURL("A", actions[t].md5), DownloadURL("B", actions[t].md5)>>
        /\ tasks[t].errs = <<"md5 mismatch">>
        /\ tasks[t].res = "ok"

\* C4: the rotation of a Download over N >= 1 peers yields exactly N URLs,
\* the i-th (from 0) being peers[(peer_id + i) mod N] + "/download?md5=" +
\* digest; so no peer is tried twice and the first one tried is the one at
\* the rotation index.
C4_UrlRotation ==
    \A t \in TaskIds :
        IsDownload(t) =>
            LET all == DownloadURLsCollect(peers, actions[t].peer_id, actions[t].md5, 0)
            IN  /\ Len(all) = Len(peers)
                /\ \A i \in 1..Len(all) : all[i] = RotationURL(t, i - 1)
                /\ \A i, j \in 1..Len(all) : i # j => all[i][1] # all[j][1]
                /\ \A i \in 1..Len(tasks[t].urls) : tasks[t].urls[i] = all[i]

\* a Download over three peers, with a peer_id past the end of the list,
\* has gone through its whole rotation
C4_Witness ==
    \E t \in TaskIds :
        /\ IsDownload(t) /\ Len(peers) = 3 /\ actions[t].peer_id = 3
        /\ Len(tasks[t].urls) = 3 /\ tasks[t].res = "err"

\* C5: at no point are more than `concurrency` tasks in flight (spawned and
\* not yet awaited).
C5_InFlightBound == Cardinality(InFlight) <= concurrency

(***************************************************************************)
(* Lookup views (server/fs.rs, LookupDirOrFile).                           *)
(***************************************************************************)
LookupFile(name, md5, size) ==
    [type |-> "File", name |-> name, md5 |-> md5, size |-> size, children |-> <<>>]

LookupDir(name, children) ==
    [type |-> "Dir", name |-> name, md5 |-> "", size |-> 0, children |-> children]

RECURSIVE TreeEqNoSize(_, _)
TreeEqNoSize(a, b) ==
    \/ /\ a.type = "Dir" /\ b.type = "Dir"
       /\ a.name = b.name
       /\ Len(a.children) = Len(b.children)
       /\ \A i \in 1..Len(a.children) : TreeEqNoSize(a.children[i], b.children[i])
    \/ /\ a.type = "File" /\ b.type = "File"
       /\ a.name = b.name /\ a.md5 = b.md5

\* impl PartialEq for LookupDirOrFile
RECURSIVE TreeEq(_, _)
TreeEq(a, b) ==
    \/ /\ a.type = "Dir" /\ b.type = "Dir"
       /\ a.name = b.name
       /\ Len(a.children) = Len(b.children)
       /\ \A i \in 1..Len(a.children) : TreeEq(a.children[i], b.children[i])
    \/ /\ a.type = "File" /\ b.type = "File"
       /\ a.name = b.name /\ a.md5 = b.md5 /\ a.size = b.size

Names == {"a", "b"}

\* the File views of the files with the contents of FileContents
FileViews == {LookupFile(n, Md5Of(c), Len(c)) : n \in Names, c \in FileContents}

\* the trees of exactly n nodes, and the sequences of trees of m nodes in all
RECURSIVE TreesOfSize(_), Forests(_)
TreesOfSize(n) ==
    IF n = 1 THEN FileViews \cup {LookupDir(nm, <<>>) : nm \in Names}
    ELSE {LookupDir(nm, f) : nm \in Names, f \in Forests(n - 1)}

Forests(m) ==
    IF m = 0 THEN {<<>>}
    ELSE UNION {{<<t>> \o rest : t \in TreesOfSize(k), rest \in Forests(m - k)} : k \in 1..m}

Trees == UNION {TreesOfSize(n) : n \in 1..MaxNodes}

OtherName(n) == IF n = "a" THEN "b" ELSE "a"

OtherMd5(d) == CHOOSE x \in ExpectedMd5s : x # d

\* the tree t with its last leaf (the last child of the last child ...)
\* changed in one respect: its kind, its name, its digest or its size
RECURSIVE AlterLast(_, _)
AlterLast(t, how) ==
    IF t.type = "Dir" /\ t.children # <<>>
    THEN [t EXCEPT !.children[Len(t.children)] = AlterLast(@, how)]
    ELSE CASE how = "name" -> [t EXCEPT !.name = OtherName(@)]
           [] how = "kind" -> IF t.type = "File" THEN LookupDir(t.name, <<>>)
                              ELSE LookupFile(t.name, Md5Of(<<0>>), 1)
           [] how = "md5" -> IF t.type = "File" THEN [t EXCEPT !.md5 = OtherMd5(@)] ELSE t
           [] how = "size" -> IF t.type = "File" THEN [t EXCEPT !.size = @ + 1] ELSE t

\* the tree t with the last two children of its last directory of two or
\* more children exchanged
RECURSIVE SwapLast(_)
SwapLast(t) ==
    IF t.type # "Dir" \/ t.children = <<>> THEN t
    ELSE LET n == Len(t.children)
         IN  IF n >= 2
             THEN [t EXCEPT !.children = [i \in 1..n |->
                        IF i = n THEN t.children[n - 1]
                        ELSE IF i = n - 1 THEN t.children[n] ELSE t.children[i]]]
             ELSE [t EXCEPT !.children[1] = SwapLast(@)]

\* the views a peer that is wrong about the tree t may return
Variants(t) ==
    {AlterLast(t, how) : how \in {"name", "kind", "md5", "size"}}
        \cup {SwapLast(t), [t EXCEPT !.name = OtherName(@)]}

(***************************************************************************)
(* Planer::plan.                                                           *)
(***************************************************************************)
TrackerNames == <<"T1", "T2", "T3", "T4">>

\* the addresses the trackers may list
KnownPeers == {AllPeers[i] : i \in 1..MaxDiscovered}

InitPlan ==
    /\ ExecIdle
    /\ VfsIdle
    /\ SpIdle
    /\ TrkIdle
    /\ HbIdle
    /\ tracker_urls \in {SubSeq(TrackerNames, 1, n) : n \in 0..MaxTrackers}
    /\ ref_tree \in Trees
    /\ ppc = "trackers"
    /\ tracker_idx = 1
    /\ peers_set = {}
    /\ tracker_errs = <<>>
    /\ plan_peers = <<>>
    /\ query_idx = 1
    /\ tree_and_peer = <<>>
    /\ query_errs = <<>>
    /\ plan_result = NoResult
    /\ queries = <<>>

\* one turn of the loop over tracker_urls: GET <url>/peers and decode it.
\* An answer is the set of the addresses it lists.
QueryTracker ==
    /\ ppc = "trackers"
    /\ tracker_idx <= Len(tracker_urls)
    /\ \E ok \in BOOLEAN, kind \in {"transport", "decode"}, addrs \in SUBSET KnownPeers :
          IF ok
          THEN /\ peers_set' = peers_set \cup addrs
               /\ UNCHANGED tracker_errs
          ELSE /\ tracker_errs' = Append(tracker_errs, <<tracker_urls[tracker_idx], kind>>)
               /\ UNCHANGED peers_set
    /\ tracker_idx' = tracker_idx + 1
    /\ UNCHANGED <<outsidePlan, tracker_urls, ref_tree, ppc, plan_peers, query_idx,
                   tree_and_peer, query_errs, plan_result, queries>>

PlanErr(kind, es) == [NoResult EXCEPT !.status = "Err", !.error = kind, !.errs = es]

DiscoveryErrorSwapped(es) ==
    IF es # <<>> THEN PlanErr("tracker_urls is empty", <<>>) ELSE PlanErr("MultiError", es)

\* the error returned when peers_set is empty
DiscoveryError(es) ==
    IF es = <<>> THEN PlanErr("tracker_urls is empty", <<>>) ELSE PlanErr("MultiError", es)

\* the orders in which a HashSet may be iterated
Orders(S) == {o \in [1..Cardinality(S) -> S] : \A i, j \in DOMAIN o : i # j => o[i] # o[j]}

\* the end of the discovery block: fail on an empty set, else freeze the
\* set into the list `peers` (the locals peers_set and errs are dropped)
DiscoveryEnd ==
    /\ ppc = "trackers"
    /\ tracker_idx > Len(tracker_urls)
    /\ IF peers_set = {}
       THEN /\ plan_result' = DiscoveryError(tracker_errs)
            /\ ppc' = "done"
            /\ UNCHANGED <<plan_peers, peers_set, tracker_errs>>
       ELSE /\ plan_peers' \in Orders(peers_set)
            /\ peers_set' = {}
            /\ tracker_errs' = <<>>
            /\ ppc' = "peers"
            /\ UNCHANGED plan_result
    /\ UNCHANGED <<outsidePlan, tracker_urls, ref_tree, tracker_idx, query_idx,
                   tree_and_peer, query_errs, queries>>

\* what a peer may answer to GET <peer>/query?md5=<digest>
PeerAnswers == {ref_tree} \cup Variants(ref_tree)

\* one turn of the loop over peers: query the peer and decode its view
QueryPeer ==
    /\ ppc = "peers"
    /\ query_idx <= Len(plan_peers)
    /\ LET peer == plan_peers[query_idx]
       IN  \E ok \in BOOLEAN, kind \in {"transport", "decode"}, tree \in PeerAnswers :
             IF ok
             THEN /\ tree_and_peer' = Append(tree_and_peer, <<peer, tree>>)
                  /\ queries' = Append(queries, [peer |-> peer, kind |-> "tree", tree |-> tree])
                  /\ UNCHANGED query_errs
             ELSE /\ query_errs' = Append(query_errs, <<peer, kind>>)
                  /\ queries' = Append(queries, [peer |-> peer, kind |-> kind, tree |-> NoTree])
                  /\ UNCHANGED tree_and_peer
    /\ query_idx' = query_idx + 1
    /\ UNCHANGED <<outsidePlan, tracker_urls, ref_tree, ppc, tracker_idx, peers_set,
                   tracker_errs, plan_peers, plan_result>>

\* while let Some((peer, other_tree)) = tree_and_peer.pop(): the outcome of
\* the comparisons of the pairs tp (popped from the back) with `tree`.
\* Yields <<matched, new_peers, the pairs left in the vector>>.
RECURSIVE ComparePeers(_, _, _)
ComparePeers(tree, tp, new_peers) ==
    IF tp = <<>> THEN <<TRUE, new_peers, tp>>
    ELSE LET last == tp[Len(tp)]
             rest == SubSeq(tp, 1, Len(tp) - 1)
         IN  IF ~TreeEq(tree, last[2]) THEN <<FALSE, new_peers, rest>>
             ELSE ComparePeers(tree, rest, Append(new_peers, last[1]))

NextIdNoWrap(next_id, n_peers) == next_id + 1

\* next_id += 1; next_id %= n_peers
NextId(next_id, n_peers) == (next_id + 1) % n_peers

EmitFirst(result, action) == <<action>> \o result

\* result.push(action)
Emit(result, action) == Append(result, action)

PushChildrenButLast(frontier, cur_path, children) ==
    frontier \o [i \in 1..(Len(children) - 1) |-> <<cur_path, children[i]>>]

\* the frontier after frontier.push_back((cur_path, child)) for each child
PushChildren(frontier, cur_path, children) ==
    frontier \o [i \in 1..Len(children) |-> <<cur_path, children[i]>>]

\* while !frontier.is_empty() { .. }: the actions emitted
RECURSIVE PlanActions(_, _, _, _)
PlanActions(frontier, result, next_id, n_peers) ==
    IF frontier = <<>> THEN result
    ELSE LET prefix == Head(frontier)[1]
             tree == Head(frontier)[2]
             cur_path == PathJoin(prefix, tree.name)
         IN  IF tree.type = "Dir"
             THEN PlanActions(PushChildren(Tail(frontier), cur_path, tree.children),
                              Emit(result, MakeDirAction(cur_path)), next_id, n_peers)
             ELSE PlanActions(Tail(frontier),
                              Emit(result, DownloadAction(next_id, cur_path, tree.md5)),
                              NextId(next_id, n_peers), n_peers)

NewPeersAll(compared) == plan_peers

\* new_peers after the comparisons
NewPeers(compared) == compared[2]

NPeersDiscovered(new_peers) == Len(plan_peers)

\* let n_peers = new_peers.len()
NPeers(new_peers) == Len(new_peers)

TreeBlockFailsOnAnyError(tp, es) == tp = <<>> \/ es # <<>>

\* if tree_and_peer.len() == 0 { return .. }: the tree block fails only when
\* no peer answered with a view; the errors of the other peers are dropped
TreeBlockFails(tp, es) == tp = <<>>

\* the rest of plan, which does not suspend: pick the reference, compare
\* the other views with it, emit the actions
Resolve ==
    /\ ppc = "peers"
    /\ query_idx > Len(plan_peers)
    /\ ppc' = "done"
    /\ IF TreeBlockFails(tree_and_peer, query_errs)
       THEN /\ plan_result' = IF query_errs = <<>> THEN PlanErr("no peers found", <<>>)
                               ELSE PlanErr("MultiError", query_errs)
            /\ UNCHANGED tree_and_peer
       ELSE LET ref == tree_and_peer[Len(tree_and_peer)]
                compared == ComparePeers(ref[2], SubSeq(tree_and_peer, 1, Len(tree_and_peer) - 1),
                                         <<ref[1]>>)
                new_peers == NewPeers(compared)
            IN  /\ tree_and_peer' = compared[3]
                /\ plan_result' =
                      IF ~compared[1] THEN PlanErr("tree mismatch", <<>>)
                      ELSE [NoResult EXCEPT
                              !.status = "Ok",
                              !.peers = new_peers,
                              !.tree = ref[2],
                              !.actions = PlanActions(<<<< <<".">>, ref[2] >>>>, <<>>, 0,
                                                      NPeers(new_peers))]
    /\ UNCHANGED <<outsidePlan, tracker_urls, ref_tree, tracker_idx, peers_set, tracker_errs,
                   plan_peers, query_idx, query_errs, queries>>

NextPlan ==
    \/ QueryTracker
    \/ DiscoveryEnd
    \/ QueryPeer
    \/ Resolve

SpecPlan == InitPlan /\ [][NextPlan]_vars

(***************************************************************************)
(* Properties of the planner.                                              *)
(***************************************************************************)
PlanOk == ppc = "done" /\ plan_result.status = "Ok"

PlanDownloads == SelectSeq(plan_result.actions, LAMBDA a : a.kind = "Download")

IsStrictPrefix(p, q) == Len(p) < Len(q) /\ SubSeq(q, 1, Len(p)) = p

\* the queries that were answered with a view
Answered == {i \in DOMAIN queries : queries[i].kind = "tree"}

\* C6: in a returned plan over N > 0 peers the k-th Download (from 0) has
\* peer_id = k mod N.
C6_RoundRobin ==
    PlanOk =>
        /\ Len(plan_result.peers) > 0
        /\ \A k \in 1..Len(PlanDownloads) :
              PlanDownloads[k].peer_id = (k - 1) % Len(plan_result.peers)

\* a plan of two Downloads over two peers
C6_Witness ==
    PlanOk /\ Len(plan_result.peers) = 2 /\ Len(PlanDownloads) = 2

\* C7: in a returned plan the MakeDir of a directory comes before every
\* action whose path lies strictly inside that directory.
C7_MakeDirFirst ==
    PlanOk =>
        \A i, j \in 1..Len(plan_result.actions) :
            (/\ plan_result.actions[i].kind = "MakeDir"
             /\ IsStrictPrefix(plan_result.actions[i].path, plan_result.actions[j].path))
                => i < j

\* a plan for a directory holding a subdirectory holding a file
C7_Witness ==
    /\ PlanOk
    /\ Len(plan_result.actions) = 3
    /\ plan_result.actions[2].kind = "MakeDir"
    /\ plan_result.actions[3].kind = "Download"
    /\ Len(plan_result.actions[3].path) = 4

\* C8: if two peers answered the tree query with views that differ, plan
\* fails with "tree mismatch" and returns no actions.
C8_TreeMismatch ==
    (/\ ppc = "done"
     /\ \E i, j \in Answered : queries[i].tree # queries[j].tree)
        => /\ plan_result.status = "Err"
           /\ plan_result.error = "tree mismatch"
           /\ plan_result.actions = <<>>

\* two peers answered; the second one queried, which becomes the
\* reference, holds the right tree and the first one differs from it
C8_Witness ==
    /\ ppc = "done"
    /\ Len(queries) = 2 /\ Answered = {1, 2}
    /\ queries[2].tree = ref_tree /\ queries[1].tree # ref_tree
    /\ plan_result.error = "tree mismatch"

\* C9: the peer list of a returned plan holds exactly the discovered peers
\* that answered with a view equal to the reference tree, each once; a
\* peer whose query failed is not in it.
C9_PeerList ==
    PlanOk =>
        LET np == plan_result.peers
        IN  /\ {np[i] : i \in DOMAIN np} = {queries[i].peer : i \in Answered}
            /\ \A i \in Answered : queries[i].tree = plan_result.tree
            /\ \A i, j \in DOMAIN np : i # j => np[i] # np[j]
            /\ \A i \in DOMAIN queries \ Answered :
                  \A k \in DOMAIN np : np[k] # queries[i].peer
            /\ \A k \in DOMAIN np : \E i \in DOMAIN plan_peers : plan_peers[i] = np[k]

\* a plan made although one of the two discovered peers failed to answer
C9_Witness ==
    PlanOk /\ Len(plan_peers) = 2 /\ Len(plan_result.peers) = 1

\* C10: when discovery ends with no peer, plan fails without querying any
\* peer: with the MultiError of the tracker errors if there are any, else
\* with "tracker_urls is empty".
C10_EmptyDiscovery ==
    (ppc = "done" /\ plan_peers = <<>>) =>
        /\ plan_result.status = "Err"
        /\ plan_result.actions = <<>>
        /\ queries = <<>>
        /\ IF tracker_errs # <<>>
           THEN plan_result.error = "MultiError" /\ plan_result.errs = tracker_errs
           ELSE plan_result.error = "tracker_urls is empty"

\* of two trackers one failed and the other listed no peer
C10_Witness ==
    /\ ppc = "done" /\ plan_peers = <<>>
    /\ Len(tracker_urls) = 2
    /\ plan_result.error = "MultiError" /\ Len(plan_result.errs) = 1

\* the action a tree node calls for, without the peer it is assigned to
NodeAction(kind, path, md5) == [kind |-> kind, path |-> path, md5 |-> md5]

\* the nodes of a Lookup view, parents first, each as the action it calls
\* for when the view is placed under the directory prefix
RECURSIVE NodeActions(_, _), ForestActions(_, _)
NodeActions(tree, prefix) ==
    IF tree.type = "Dir"
    THEN <<NodeAction("MakeDir", prefix \o <<tree.name>>, "")>>
            \o ForestActions(tree.children, prefix \o <<tree.name>>)
    ELSE <<NodeAction("Download", prefix \o <<tree.name>>, tree.md5)>>

ForestActions(children, prefix) ==
    IF children = <<>> THEN <<>>
    ELSE NodeActions(Head(children), prefix) \o ForestActions(Tail(children), prefix)

\* how often x occurs in the sequence s
Occurrences(s, x) == Cardinality({i \in DOMAIN s : s[i] = x})

\* the sequences s and t hold the same elements, each as often
SameBag(s, t) ==
    /\ Len(s) = Len(t)
    /\ \A i \in DOMAIN s : Occurrences(s, s[i]) = Occurrences(t, s[i])

\* the actions of the returned plan without their peer_id
PlanNodeActions ==
    [i \in DOMAIN plan_result.actions |->
        NodeAction(plan_result.actions[i].kind, plan_result.actions[i].path,
                   plan_result.actions[i].md5)]

\* C11: a returned plan holds exactly one action for each node of the
\* reference tree: a MakeDir for a directory and a Download with the node's
\* digest for a file, at the path (parent's path, "." for the root) / name;
\* the plan of a single-file tree is the one Download of "./name" with
\* peer_id 0.
C11_OneActionPerNode ==
    PlanOk =>
        /\ SameBag(PlanNodeActions, NodeActions(plan_result.tree, <<".">>))
        /\ plan_result.tree.type = "File" =>
              plan_result.actions =
                  <<DownloadAction(0, <<".", plan_result.tree.name>>, plan_result.tree.md5)>>

\* the plan of a directory of two entries, one of them a file
C11_Witness ==
    /\ PlanOk
    /\ plan_result.tree.type = "Dir"
    /\ Len(plan_result.tree.children) = 2
    /\ plan_result.tree.children[2].type = "File"
    /\ Len(plan_result.actions) = 3

\* a single-file tree planned
C11_WitnessFile ==
    PlanOk /\ plan_result.tree.type = "File" /\ Len(plan_result.actions) = 1

(***************************************************************************)
(* The host file system the serving peer reads (server/fs.rs).             *)
(***************************************************************************)
\* the entries of the host: regular files (readable or not), directories
\* and entries that are neither (a socket, a dangling link)
HostFile(content, readable) ==
    [type |-> "File", content |-> content, readable |-> readable, children |-> <<>>]

HostDir(children) ==
    [type |-> "Dir", content |-> <<>>, readable |-> TRUE, children |-> children]

HostOther == [type |-> "Other", content |-> <<>>, readable |-> FALSE, children |-> <<>>]

\* contents of the host's files
HostContents == {<<>>, <<0>>}

HostLeaves ==
    {HostFile(c, TRUE) : c \in HostContents} \cup {HostFile(<<0>>, FALSE), HostOther}

\* the host trees of exactly n entries, and the sequences of host trees of
\* m entries in all; the order of a sequence is the order read_dir yields
RECURSIVE HostTreesOfSize(_), HostForests(_)
HostTreesOfSize(n) ==
    IF n = 1 THEN HostLeaves \cup {HostDir(<<>>)}
    ELSE {HostDir(f) : f \in HostForests(n - 1)}

HostForests(m) ==
    IF m = 0 THEN {<<>>}
    ELSE UNION {{<<t>> \o rest : t \in HostTreesOfSize(k), rest \in HostForests(m - k)}
                : k \in 1..m}

\* the i-th entry of a directory (and the i-th path handed to add) is named
\* VfsNames[i]
VfsNames == <<"n1", "n2", "n3", "n4", "n5">>

NameIndex(name) == CHOOSE i \in DOMAIN VfsNames : VfsNames[i] = name

\* the host entry at a path below the entries es
RECURSIVE HostEntry(_, _)
HostEntry(es, path) ==
    LET e == es[NameIndex(Head(path))]
    IN  IF Len(path) = 1 THEN e ELSE HostEntry(e.children, Tail(path))

(***************************************************************************)
(* VirtualFileSystem (server/fs.rs).  Node ids count from 0 as in the      *)
(* source: the node of id i is items[i + 1].                               *)
(***************************************************************************)
\* FileOrDir { path, md5: String::new(), special_fields: File { size: 0 } }
ItemFile(path) ==
    [path |-> path, md5 |-> "", type |-> "File", children |-> <<>>, size |-> 0]

\* FileOrDir { path, md5: String::new(), special_fields: Dir { children } }
ItemDir(path, children) ==
    [path |-> path, md5 |-> "", type |-> "Dir", children |-> children, size |-> 0]

AddResultNext(its, ok, id) == [items |-> its, ok |-> ok, id |-> id + 1]

\* what add returns: the items afterwards, and Ok(id) or Err
AddResult(its, ok, id) == [items |-> its, ok |-> ok, id |-> id]

\* add, add_dir and add_file for the host entry e at path; AddEntries is
\* the loop of add_dir over the entries es from the i-th on
RECURSIVE AddPath(_, _, _), AddEntries(_, _, _, _, _)
AddPath(its, e, path) ==
    IF e.type = "Dir"
    THEN LET r == AddEntries(its, e.children, path, 1, <<>>)
         IN  IF ~r.ok THEN AddResult(r.items, FALSE, 0)
             ELSE AddResult(Append(r.items, ItemDir(path, r.children)), TRUE, Len(r.items))
    ELSE IF e.type # "File" THEN AddResult(its, FALSE, 0)
    ELSE AddResult(Append(its, ItemFile(path)), TRUE, Len(its))

AddEntries(its, es, path, i, children) ==
    IF i > Len(es) THEN [items |-> its, ok |-> TRUE, children |-> children]
    ELSE LET r == AddPath(its, es[i], Append(path, VfsNames[i]))
         IN  IF ~r.ok THEN [items |-> r.items, ok |-> FALSE, children |-> children]
             ELSE AddEntries(r.items, es, path, i + 1, Append(children, r.id))

\* the bytes of a digest string: the ASCII codes of its hex digits
HexRank(c) == CHOOSE i \in DOMAIN HexDigits : HexDigits[i] = c

HexByte(c) == IF HexRank(c) <= 10 THEN 47 + HexRank(c) ELSE 86 + HexRank(c)

Md5Bytes(md5) == IF md5 = "" THEN <<>> ELSE <<HexByte(md5)>>

\* String::cmp of two digest strings: a < b
Md5Less(a, b) ==
    IF b = "" THEN FALSE ELSE IF a = "" THEN TRUE ELSE HexRank(a) < HexRank(b)

\* HashMap::insert and HashMap::get on a set of pairs <<key, value>>
MapInsert(map, k, v) == {p \in map : p[1] # k} \cup {<<k, v>>}

MapHas(map, k) == \E p \in map : p[1] = k

MapGet(map, k) == (CHOOSE p \in map : p[1] = k)[2]

\* the ids of the nodes of its
Ids(its) == 0..(Len(its) - 1)

FileIds(its) == {id \in Ids(its) : its[id + 1].type = "File"}

\* the file nodes whose host file cannot be opened or read
UnreadableIds(its) == {id \in FileIds(its) : ~HostEntry(host_roots, its[id + 1].path).readable}

SealFilesSizeOnly(its, done) ==
    [i \in DOMAIN its |->
        IF (i - 1) \in done
        THEN [its[i] EXCEPT !.size = Len(HostEntry(host_roots, its[i].path).content)]
        ELSE its[i]]

\* the first phase of seal for the files of ids done: the digest of the
\* contents read and the size from the metadata
SealFiles(its, done) ==
    [i \in DOMAIN its |->
        IF (i - 1) \in done
        THEN LET content == HostEntry(host_roots, its[i].path).content
             IN  [its[i] EXCEPT !.md5 = Md5Of(content), !.size = Len(content)]
        ELSE its[i]]

InsertByMd5Front(its, sorted, c) == <<c>> \o sorted

\* the place of the id c in the sorted ids: behind every id whose digest
\* is not greater (the sort is stable)
RECURSIVE InsertByMd5(_, _, _)
InsertByMd5(its, sorted, c) ==
    IF sorted = <<>> THEN <<c>>
    ELSE IF Md5Less(its[c + 1].md5, its[Head(sorted) + 1].md5) THEN <<c>> \o sorted
    ELSE <<Head(sorted)>> \o InsertByMd5(its, Tail(sorted), c)

SortByMd5None(its, children) == children

\* mut_children.sort_by(|a, b| self.items[*a].md5.cmp(&self.items[*b].md5))
RECURSIVE SortByMd5(_, _)
SortByMd5(its, children) ==
    IF children = <<>> THEN <<>>
    ELSE InsertByMd5(its, SortByMd5(its, SubSeq(children, 1, Len(children) - 1)),
                     children[Len(children)])

\* the digest context after md5_ctx.consume(&self.items[*child].md5) for
\* each child in turn
RECURSIVE ConsumeChildren(_, _, _)
ConsumeChildren(its, ctx, children) ==
    IF children = <<>> THEN ctx
    ELSE ConsumeChildren(its, Md5Consume(ctx, Md5Bytes(its[Head(children) + 1].md5)),
                         Tail(children))

\* the md5 of a directory whose children are in the order given
DirMd5(its, children) == Md5Hex(ConsumeChildren(its, Md5New, children))

\* self.md5_to_id.insert(self.items[index].md5.clone(), index)
SealInsert(map, k, v) == MapInsert(map, k, v)

\* for index in 0..self.items.len() { .. }: the second phase of seal from
\* index on; yields the items and the map
RECURSIVE SealDirs(_, _, _)
SealDirs(its, map, index) ==
    IF index >= Len(its) THEN [items |-> its, map |-> map]
    ELSE LET item == its[index + 1]
             new_children == SortByMd5(its, item.children)
             sealed == IF item.type = "Dir"
                       THEN [its EXCEPT ![index + 1].children = new_children,
                                        ![index + 1].md5 = DirMd5(its, new_children)]
                       ELSE its
         IN  SealDirs(sealed, SealInsert(map, sealed[index + 1].md5, index), index + 1)

SealAbortAfterDirs(its, map) == SealDirs(its, map, 0)

\* .try_for_each(..)?: an error of the first phase returns from seal before
\* the second phase
SealAbort(its, map) == [items |-> its, map |-> map]

\* file_name: the last component of the node's path
FileName(its, id) == its[id + 1].path[Len(its[id + 1].path)]

\* id_to_lookup
RECURSIVE IdToLookup(_, _)
IdToLookup(its, id) ==
    IF its[id + 1].type = "Dir"
    THEN LookupDir(FileName(its, id),
                   [i \in DOMAIN its[id + 1].children |->
                       IdToLookup(its, its[id + 1].children[i])])
    ELSE LookupFile(FileName(its, id), its[id + 1].md5, its[id + 1].size)

\* the digest strings a caller may ask for
AllMd5s == {Md5Hex(i) : i \in 0..(DigestSpace - 1)}

VfsOp(op, res, error, changed) ==
    [op |-> op, res |-> res, error |-> error, changed |-> changed]

Seals == {i \in DOMAIN vfs_ops : vfs_ops[i].op = "seal"}

InitVfs ==
    /\ ExecIdle
    /\ PlanIdle
    /\ SpIdle
    /\ TrkIdle
    /\ HbIdle
    /\ host_roots \in UNION {HostForests(m) : m \in 0..MaxHostNodes}
    /\ next_root = 1
    /\ items = <<>>
    /\ md5_to_id = {}
    /\ vfs_ops = <<>>
    /\ vfs_reply = NoReply
    /\ svr_reply = NoResponse

\* vfs.add(path) for the next path of the list
VfsAdd ==
    /\ next_root <= Len(host_roots)
    /\ LET r == AddPath(items, host_roots[next_root], <<VfsNames[next_root]>>)
       IN  /\ items' = r.items
           /\ vfs_ops' = Append(vfs_ops,
                  VfsOp("add", IF r.ok THEN "Ok" ELSE "Err",
                        IF r.ok THEN "" ELSE "Path is not a file", r.items # items))
    /\ next_root' = next_root + 1
    /\ vfs_reply' = NoReply
    /\ svr_reply' = NoResponse
    /\ UNCHANGED <<outsideVfs, host_roots, md5_to_id>>

\* vfs.seal()
VfsSeal ==
    /\ Cardinality(Seals) < MaxSeals
    /\ IF md5_to_id # {}
       THEN /\ vfs_ops' = Append(vfs_ops,
                   VfsOp("seal", "Err", "VirtualFileSystem has been sealed", FALSE))
            /\ UNCHANGED <<items, md5_to_id>>
       ELSE IF UnreadableIds(items) # {}
       THEN \* try_for_each stops at the first error; the files the other
            \* workers had digested by then keep their digests
            \E done \in SUBSET (FileIds(items) \ UnreadableIds(items)) :
                LET r == SealAbort(SealFiles(items, done), md5_to_id)
                IN  /\ items' = r.items
                    /\ md5_to_id' = r.map
                    /\ vfs_ops' = Append(vfs_ops, VfsOp("seal", "Err", "io", items' # items))
       ELSE LET r == SealDirs(SealFiles(items, FileIds(items)), md5_to_id, 0)
            IN  /\ items' = r.items
                /\ md5_to_id' = r.map
                /\ vfs_ops' = Append(vfs_ops,
                       VfsOp("seal", "Ok", "", r.items # items \/ r.map # md5_to_id))
    /\ vfs_reply' = NoReply
    /\ svr_reply' = NoResponse
    /\ UNCHANGED <<outsideVfs, host_roots, next_root>>

\* vfs.lookup(md5)
VfsLookup(md5) ==
    /\ vfs_reply' =
          IF MapHas(md5_to_id, md5)
          THEN [NoReply EXCEPT !.call = "lookup", !.md5 = md5, !.status = "Some",
                               !.view = IdToLookup(items, MapGet(md5_to_id, md5))]
          ELSE [NoReply EXCEPT !.call = "lookup", !.md5 = md5, !.status = "None"]
    /\ UNCHANGED <<outsideVfs, host_roots, next_root, items, md5_to_id, vfs_ops, svr_reply>>

\* vfs.file_path(md5)
VfsFilePath(md5) ==
    /\ vfs_reply' =
          IF MapHas(md5_to_id, md5)
          THEN LET id == MapGet(md5_to_id, md5)
               IN  IF items[id + 1].type = "File"
                   THEN [NoReply EXCEPT !.call = "file_path", !.md5 = md5, !.status = "Ok",
                                        !.path = items[id + 1].path]
                   ELSE [NoReply EXCEPT !.call = "file_path", !.md5 = md5,
                                        !.status = "Is Dir"]
          ELSE [NoReply EXCEPT !.call = "file_path", !.md5 = md5,
                               !.status = "File not found"]
    /\ UNCHANGED <<outsideVfs, host_roots, next_root, items, md5_to_id, vfs_ops, svr_reply>>

\* AppState::new: every path was added and the seal that followed succeeded;
\* the handlers run on that state
Serving ==
    /\ next_root > Len(host_roots)
    /\ vfs_ops # <<>>
    /\ \A i \in DOMAIN vfs_ops :
          /\ vfs_ops[i].res = "Ok"
          /\ vfs_ops[i].op = (IF i = Len(vfs_ops) THEN "seal" ELSE "add")

\* the values of the query string's md5 parameter, NoParam when it is missing
QueryParams == AllMd5s \cup {NoParam}

Response(route, md5, status) ==
    [NoResponse EXCEPT !.route = route, !.md5 = md5, !.status = status]

\* query: Json(resp) for the view lookup returned
QueryKnown(map, md5) ==
    [Response("query", md5, 200) EXCEPT !.json = IdToLookup(items, MapGet(map, md5))]

\* GET /query
SvrQuery(md5) ==
    /\ Serving
    /\ svr_reply' =
          IF md5 = NoParam THEN Response("query", md5, 400)
          ELSE IF ~MapHas(md5_to_id, md5) THEN Response("query", md5, 404)
          ELSE QueryKnown(md5_to_id, md5)
    /\ UNCHANGED <<outsideVfs, host_roots, next_root, items, md5_to_id, vfs_ops, vfs_reply>>

\* GET /download; opened: whether tokio::fs::File::open finds the file still
\* there and readable
SvrDownload(md5, opened) ==
    /\ Serving
    /\ svr_reply' =
          IF md5 = NoParam THEN Response("download", md5, 400)
          ELSE IF ~MapHas(md5_to_id, md5) THEN Response("download", md5, 404)
          ELSE LET id == MapGet(md5_to_id, md5)
               IN  IF items[id + 1].type # "File" THEN Response("download", md5, 500)
                   ELSE IF ~opened THEN Response("download", md5, 404)
                   ELSE [Response("download", md5, 200) EXCEPT
                            !.body = HostEntry(host_roots, items[id + 1].path).content]
    /\ UNCHANGED <<outsideVfs, host_roots, next_root, items, md5_to_id, vfs_ops, vfs_reply>>

NextVfs ==
    \/ VfsAdd
    \/ VfsSeal
    \/ \E md5 \in AllMd5s : VfsLookup(md5)
    \/ \E md5 \in AllMd5s : VfsFilePath(md5)
    \/ \E md5 \in QueryParams : SvrQuery(md5)
    \/ \E md5 \in QueryParams, opened \in BOOLEAN : SvrDownload(md5, opened)

SpecVfs == InitVfs /\ [][NextVfs]_vars

(***************************************************************************)
(* Properties of the VirtualFileSystem.                                    *)
(***************************************************************************)
\* the last call of add or seal was a seal that succeeded
JustSealed ==
    /\ vfs_ops # <<>>
    /\ vfs_ops[Len(vfs_ops)].op = "seal"
    /\ vfs_ops[Len(vfs_ops)].res = "Ok"

\* C12: whatever nodes were added (none included), a seal that follows a
\* successful seal fails with the "sealed" error and changes neither the
\* nodes nor the digest map.
C12_SecondSealFails ==
    \A i, j \in Seals :
        (i < j /\ vfs_ops[i].res = "Ok") =>
            /\ vfs_ops[j].res = "Err"
            /\ vfs_ops[j].error = "VirtualFileSystem has been sealed"
            /\ ~vfs_ops[j].changed

\* the nodes of the given digest
NodesOf(md5) == {id \in Ids(items) : items[id + 1].md5 = md5}

\* C13: right after a successful seal every node has a non-empty digest,
\* the digest map has an entry for the digest of every node, and every
\* entry of the map points to a node that carries the entry's digest.
C13_SealedDigests ==
    JustSealed =>
        /\ \A id \in Ids(items) : items[id + 1].md5 # ""
        /\ \A id \in Ids(items) : MapHas(md5_to_id, items[id + 1].md5)
        /\ \A p \in md5_to_id : p[2] \in NodesOf(p[1])
        /\ \A p, q \in md5_to_id : p[1] = q[1] => p = q

\* a sealed VFS of three nodes of which two share a digest
C13_Witness ==
    /\ JustSealed
    /\ Len(items) = 3
    /\ Cardinality(md5_to_id) = 2
    /\ \E p \in md5_to_id : Cardinality(NodesOf(p[1])) = 2

\* the bytes of the digest strings of the nodes ids, one after the other
RECURSIVE ConcatMd5s(_)
ConcatMd5s(ids) ==
    IF ids = <<>> THEN <<>>
    ELSE Md5Bytes(items[Head(ids) + 1].md5) \o ConcatMd5s(Tail(ids))

\* the digests of the nodes ids ascend
AscendingIds(ids) ==
    \A i, j \in DOMAIN ids :
        i < j => ~Md5Less(items[ids[j] + 1].md5, items[ids[i] + 1].md5)

\* the digest of a Lookup view: of a file its md5, of a directory the
\* digest of its children's digests in their order
RECURSIVE ViewMd5(_)
ViewMd5(view) ==
    IF view.type = "File" THEN view.md5
    ELSE LET ds == [i \in DOMAIN view.children |-> ViewMd5(view.children[i])]
             RECURSIVE Cat(_)
             Cat(k) == IF k > Len(ds) THEN <<>> ELSE Md5Bytes(ds[k]) \o Cat(k + 1)
         IN  Md5Of(Cat(1))

\* the children of every directory of the view ascend by digest
RECURSIVE ViewAscending(_)
ViewAscending(view) ==
    /\ \A i, j \in DOMAIN view.children :
          i < j => ~Md5Less(ViewMd5(view.children[j]), ViewMd5(view.children[i]))
    /\ \A i \in DOMAIN view.children : ViewAscending(view.children[i])

\* C14: right after a successful seal the children of every directory node
\* are in ascending order of their digests and the directory's digest is
\* the digest of its children's digests concatenated in that order; the
\* view lookup returns has its children in ascending digest order at every
\* level.
C14_ChildrenByDigest ==
    /\ JustSealed =>
          \A id \in Ids(items) :
              items[id + 1].type = "Dir" =>
                  /\ AscendingIds(items[id + 1].children)
                  /\ items[id + 1].md5 = Md5Of(ConcatMd5s(items[id + 1].children))
    /\ (vfs_reply.call = "lookup" /\ vfs_reply.status = "Some") =>
          ViewAscending(vfs_reply.view)

\* a sealed directory whose two children seal reordered them, looked up
C14_Witness ==
    /\ JustSealed
    /\ \E id \in Ids(items) :
          /\ items[id + 1].type = "Dir"
          /\ Len(items[id + 1].children) = 2
          /\ items[id + 1].children[1] > items[id + 1].children[2]
          /\ vfs_reply.call = "lookup" /\ vfs_reply.status = "Some"
          /\ vfs_reply.md5 = items[id + 1].md5
          /\ vfs_reply.view.type = "Dir"
          /\ Len(vfs_reply.view.children) = 2

\* a seal has succeeded
Sealed == \E i \in Seals : vfs_ops[i].res = "Ok"

\* C15: on a sealed VFS file_path(d) returns a host path only if a file
\* node has the digest d, and then that node's path; it fails with "Is Dir"
\* when d is the digest of a directory node and with "File not found" when
\* no node has the digest d.
C15_FilePathOutcome ==
    (Sealed /\ vfs_reply.call = "file_path") =>
        LET d == vfs_reply.md5
        IN  /\ vfs_reply.status = "Ok" =>
                  \E id \in NodesOf(d) :
                      items[id + 1].type = "File" /\ items[id + 1].path = vfs_reply.path
            /\ (\E id \in NodesOf(d) : items[id + 1].type = "Dir") =>
                  vfs_reply.status = "Is Dir"
            /\ NodesOf(d) = {} => vfs_reply.status = "File not found"

(***************************************************************************)
(* LimitedSpawner (utils/limited_spawner.rs).  A call of spawn is          *)
(* "waiting" while queued in acquire_owned, "granted" once the semaphore   *)
(* has handed it a permit and its caller has not run yet, "running" from   *)
(* tokio::spawn on, and then "returned", "panicked" or "aborted" as its    *)
(* task ended; "cancelled" if the caller dropped the call before it        *)
(* started the task.  Every call has its own caller.                       *)
(***************************************************************************)
CallIds == DOMAIN sp_calls

Waiting == {c \in CallIds : sp_calls[c] = "waiting"}
Granted == {c \in CallIds : sp_calls[c] = "granted"}
Running == {c \in CallIds : sp_calls[c] = "running"}

TryAcquireAlways(permits) == permits >= 0

\* acquire_owned finds a permit at once
TryAcquire(permits) == permits > 0

NextWaiterLast(waiters) == waiters[Len(waiters)]

\* the waiter a released permit goes to
NextWaiter(waiters) == Head(waiters)

EndDropsPermitOnReturn(how) == how = "returned"

\* `let _permit = permit;` in the task: the permit is dropped with the
\* task's future, however the task ends
EndDropsPermit(how) == how \in {"returned", "panicked", "aborted"}

CancelReturnsNothing(state) == FALSE

\* dropping the acquire_owned future gives back the permit it was handed
CancelReturnsPermit(state) == state = "granted"

\* the sequence s without the element x
Without(s, x) == SelectSeq(s, LAMBDA y : y # x)

\* the semaphore after a permit is given back: it goes to a waiter if
\* there is one, else it becomes available.  calls is the state of the
\* calls before the release.
Release(calls) ==
    IF sp_waiters # <<>>
    THEN LET w == NextWaiter(sp_waiters)
         IN  /\ sp_calls' = [calls EXCEPT ![w] = "granted"]
             /\ sp_waiters' = Without(sp_waiters, w)
             /\ sp_grants' = Append(sp_grants, w)
             /\ UNCHANGED sp_permits
    ELSE /\ sp_calls' = calls
         /\ sp_permits' = sp_permits + 1
         /\ UNCHANGED <<sp_waiters, sp_grants>>

InitSpawner ==
    /\ ExecIdle
    /\ PlanIdle
    /\ VfsIdle
    /\ TrkIdle
    /\ HbIdle
    /\ sp_capacity \in 0..MaxCapacity
    /\ sp_permits = sp_capacity
    /\ sp_waiters = <<>>
    /\ sp_calls = <<>>
    /\ sp_grants = <<>>
    /\ sp_starts = <<>>

\* a caller calls spawn: with a permit at hand the task starts in the same
\* poll, else the call queues
SpSpawn ==
    /\ Len(sp_calls) < MaxSpawns
    /\ LET c == Len(sp_calls) + 1
       IN  IF TryAcquire(sp_permits)
           THEN /\ sp_permits' = sp_permits - 1
                /\ sp_calls' = Append(sp_calls, "running")
                /\ sp_grants' = Append(sp_grants, c)
                /\ sp_starts' = Append(sp_starts, c)
                /\ UNCHANGED sp_waiters
           ELSE /\ sp_calls' = Append(sp_calls, "waiting")
                /\ sp_waiters' = Append(sp_waiters, c)
                /\ UNCHANGED <<sp_permits, sp_grants, sp_starts>>
    /\ UNCHANGED <<outsideSp, sp_capacity>>

\* the caller of a call that was handed a permit runs: tokio::spawn
SpResume(c) ==
    /\ c \in CallIds
    /\ sp_calls[c] = "granted"
    /\ sp_calls' = [sp_calls EXCEPT ![c] = "running"]
    /\ sp_starts' = Append(sp_starts, c)
    /\ UNCHANGED <<outsideSp, sp_capacity, sp_permits, sp_waiters, sp_grants>>

\* the caller drops a call that has not started its task (a timeout, a select)
SpCancel(c) ==
    /\ c \in CallIds
    /\ sp_calls[c] \in {"waiting", "granted"}
    /\ IF CancelReturnsPermit(sp_calls[c])
       THEN Release([sp_calls EXCEPT ![c] = "cancelled"])
       ELSE /\ sp_calls' = [sp_calls EXCEPT ![c] = "cancelled"]
            /\ sp_waiters' = Without(sp_waiters, c)
            /\ UNCHANGED <<sp_permits, sp_grants>>
    /\ UNCHANGED <<outsideSp, sp_capacity, sp_starts>>

\* the task of a call ends: it returns, panics or is aborted through its handle
SpTaskEnd(c, how) ==
    /\ c \in CallIds
    /\ sp_calls[c] = "running"
    /\ IF EndDropsPermit(how)
       THEN Release([sp_calls EXCEPT ![c] = how])
       ELSE /\ sp_calls' = [sp_calls EXCEPT ![c] = how]
            /\ UNCHANGED <<sp_permits, sp_waiters, sp_grants>>
    /\ UNCHANGED <<outsideSp, sp_capacity, sp_starts>>

NextSpawner ==
    \/ SpSpawn
    \/ \E c \in 1..MaxSpawns : SpResume(c)
    \/ \E c \in 1..MaxSpawns : SpCancel(c)
    \/ \E c \in 1..MaxSpawns, how \in {"returned", "panicked", "aborted"} : SpTaskEnd(c, how)

SpecSpawner == InitSpawner /\ [][NextSpawner]_vars

(***************************************************************************)
(* Properties of the LimitedSpawner.                                       *)
(***************************************************************************)
\* the calls of the given state
CallsIn(state) == {c \in CallIds : sp_calls[c] = state}

\* s is in strictly ascending order
Ascending(s) == \A i, j \in DOMAIN s : i < j => s[i] < s[j]

\* C16: for every capacity k and every sequence of calls of spawn, at most
\* k tasks have started and not yet ended.
C16_RunningBound == Cardinality(Running) <= sp_capacity

\* as many tasks running as there are permits, and a call waiting behind them
C16_Witness ==
    sp_capacity = 2 /\ Cardinality(Running) = 2 /\ Waiting # {}

\* no call is waiting or holds a permit, and no task runs
Quiescent == Waiting = {} /\ Granted = {} /\ Running = {}

\* a call of spawn made now starts its task at once
SpawnStartsAtOnce == SpSpawn /\ Len(sp_starts') = Len(sp_starts) + 1

\* C17: a task gives its permit back however it ends (return, panic,
\* abort): once every started task has ended all k permits are available
\* again, and a later call of spawn starts its task.
C17_PermitsReturned ==
    Quiescent =>
        /\ sp_permits = sp_capacity
        /\ (sp_capacity > 0 /\ Len(sp_calls) < MaxSpawns) => ENABLED SpawnStartsAtOnce

\* with one permit: a task panicked, a task was aborted, and a third call
\* started its task and returned
C17_Witness ==
    /\ sp_capacity = 1
    /\ Quiescent
    /\ sp_calls = <<"panicked", "aborted", "returned">>

\* C18: a call waiting for a permit starts its task only after it was
\* handed one, calls wait only while no permit is available, and a waiting
\* call that is cancelled takes no permit with it: the permits available
\* plus the permits held (by running tasks and by calls about to start
\* theirs) are always k.
C18_NoPermitLeak ==
    /\ sp_permits + Cardinality(Granted) + Cardinality(Running) = sp_capacity
    /\ sp_permits >= 0
    /\ Waiting # {} => sp_permits = 0
    /\ \A i \in DOMAIN sp_starts : \E j \in DOMAIN sp_grants : sp_grants[j] = sp_starts[i]
    /\ \A c \in Waiting : \A j \in DOMAIN sp_grants : sp_grants[j] # c

\* a call cancelled while it waited, another cancelled after it was handed
\* a permit, and the permit passed on
C18_Witness ==
    /\ sp_capacity = 1
    /\ \E a, b \in CallsIn("cancelled") :
          /\ \A j \in DOMAIN sp_grants : sp_grants[j] # a
          /\ \E j \in DOMAIN sp_grants : sp_grants[j] = b
    /\ Running # {}

\* C19 as stated: of two calls that both started their task, the one made
\* first started its task first.
C19_StartsInCallOrder == Ascending(sp_starts)

\* C19: permits are handed out in the order of the calls of spawn; with
\* capacity 1 the tasks start in that order and run one at a time.
C19_GrantsInCallOrder ==
    /\ Ascending(sp_grants)
    /\ sp_capacity = 1 => (Ascending(sp_starts) /\ Cardinality(Running) <= 1)

\* two calls that waited were handed their permits in order, and the later
\* one started its task first
C19_Witness ==
    /\ sp_capacity = 2
    /\ sp_grants = <<1, 2, 3, 4>>
    /\ sp_calls[3] = "granted"
    /\ sp_calls[4] = "running"

\* with one permit, three tasks ran one after the other in call order
C19_WitnessSingle ==
    /\ sp_capacity = 1
    /\ sp_starts = <<1, 2, 3>>
    /\ sp_calls = <<"returned", "returned", "running", "waiting">>

(***************************************************************************)
(* The tracker (tracker.rs).  A record of the registry is the pair         *)
(* <<addr, last_seen>>.  Each handler takes the RwLock for one step.       *)
(***************************************************************************)
TrkAddrs == {AllPeers[i] : i \in 1..MaxTrkPeers}

\* current_time - peer.last_seen in u64 went below zero
Underflows(current_time, last_seen) == last_seen > current_time

\* the closure of retain: current_time - peer.last_seen < timeout_seconds.
\* Where the subtraction underflows and wraps, the difference is 2^64
\* less a few seconds, which is not below the timeout.
RetainPeer(current_time, last_seen, timeout_seconds) ==
    IF Underflows(current_time, last_seen) THEN FALSE
    ELSE current_time - last_seen < timeout_seconds

TrkInsertKeepOld(map, addr, last_seen) == map \cup {<<addr, last_seen>>}

\* peers.insert(peer.addr.clone(), peer)
TrkInsert(map, addr, last_seen) == MapInsert(map, addr, last_seen)

InitTracker ==
    /\ ExecIdle
    /\ PlanIdle
    /\ VfsIdle
    /\ SpIdle
    /\ HbIdle
    /\ trk_now = 0
    /\ trk_peers = {}
    /\ trk_announces = {}
    /\ trk_cleanup = CleanupIdle
    /\ trk_pass = NoPass
    /\ trk_listed = NotListed
    /\ trk_wrote = NoWrite

\* a second passes
TrkTick ==
    /\ trk_now < MaxTime
    /\ trk_now' = trk_now + 1
    /\ trk_pass' = NoPass
    /\ trk_wrote' = NoWrite
    /\ trk_listed' = NotListed
    /\ UNCHANGED <<outsideTrk, trk_peers, trk_announces, trk_cleanup>>

\* handle_announce up to the await of the write lock: the timestamp is taken
TrkAnnounceStart(addr) ==
    /\ Cardinality(trk_announces) < MaxInflight
    /\ trk_announces' = trk_announces \cup {<<addr, trk_now>>}
    /\ trk_pass' = NoPass
    /\ trk_wrote' = NoWrite
    /\ trk_listed' = NotListed
    /\ UNCHANGED <<outsideTrk, trk_now, trk_peers, trk_cleanup>>

\* announce_peer with the write lock: peers.insert(addr, peer)
TrkAnnounceWrite(a) ==
    /\ a \in trk_announces
    /\ trk_announces' = trk_announces \ {a}
    /\ trk_peers' = TrkInsert(trk_peers, a[1], a[2])
    /\ trk_wrote' = [made |-> TRUE, addr |-> a[1], last_seen |-> a[2],
                     before |-> trk_peers, after |-> trk_peers']
    /\ trk_pass' = NoPass
    /\ trk_listed' = NotListed
    /\ UNCHANGED <<outsideTrk, trk_now, trk_cleanup>>

\* handle_get_peers: get_peers with the read lock; the records come in the
\* order of the HashMap
TrkGetPeers ==
    /\ \E o \in Orders(trk_peers) : trk_listed' = [made |-> TRUE, peers |-> o]
    /\ trk_pass' = NoPass
    /\ trk_wrote' = NoWrite
    /\ UNCHANGED <<outsideTrk, trk_now, trk_peers, trk_announces, trk_cleanup>>

\* the cleanup task after interval.tick(): cleanup_peers reads the clock
\* and awaits the write lock
TrkCleanupStart ==
    /\ trk_cleanup.pc = "idle"
    /\ trk_cleanup' = [pc |-> "locking", current_time |-> trk_now]
    /\ trk_pass' = NoPass
    /\ trk_wrote' = NoWrite
    /\ trk_listed' = NotListed
    /\ UNCHANGED <<outsideTrk, trk_now, trk_peers, trk_announces>>

\* cleanup_peers with the write lock: peers.retain(..).  Where a
\* subtraction underflows, a build with overflow checks panics in the
\* middle of retain (the records dropped by then stay dropped, the cleanup
\* task is gone), a build without them wraps.
TrkCleanupRetain ==
    /\ trk_cleanup.pc = "locking"
    /\ LET ct == trk_cleanup.current_time
           kept == {p \in trk_peers : RetainPeer(ct, p[2], CleanupTimeout)}
           under == {p \in trk_peers : Underflows(ct, p[2])}
       IN  \/ /\ trk_peers' = kept
              /\ trk_cleanup' = CleanupIdle
              /\ trk_pass' = [made |-> TRUE, now |-> ct, before |-> trk_peers,
                              after |-> kept, panicked |-> FALSE]
           \/ /\ under # {}
              /\ \E dropped \in SUBSET (trk_peers \ (kept \cup under)) :
                    /\ trk_peers' = trk_peers \ dropped
                    /\ trk_pass' = [made |-> TRUE, now |-> ct, before |-> trk_peers,
                                    after |-> trk_peers \ dropped, panicked |-> TRUE]
              /\ trk_cleanup' = [pc |-> "dead", current_time |-> ct]
    /\ trk_listed' = NotListed
    /\ trk_wrote' = NoWrite
    /\ UNCHANGED <<outsideTrk, trk_now, trk_announces>>

NextTracker ==
    \/ TrkTick
    \/ \E addr \in TrkAddrs : TrkAnnounceStart(addr)
    \/ \E a \in TrkAddrs \X (0..MaxTime) : TrkAnnounceWrite(a)
    \/ TrkGetPeers
    \/ TrkCleanupStart
    \/ TrkCleanupRetain

SpecTracker == InitTracker /\ [][NextTracker]_vars

\* What the clock and the runtime guarantee: time passes, the interval of
\* the cleanup task fires while the task is alive, and a handler or the
\* cleanup task waiting for the write lock obtains it (the tokio RwLock is
\* fair).  Nothing makes a peer announce.
TrkFairness ==
    /\ WF_vars(TrkTick)
    /\ WF_vars(TrkCleanupStart)
    /\ WF_vars(TrkCleanupRetain)
    /\ WF_vars(\E a \in TrkAddrs \X (0..MaxTime) : TrkAnnounceWrite(a))

SpecTrackerFair == SpecTracker /\ TrkFairness

(***************************************************************************)
(* Properties of the tracker.                                              *)
(***************************************************************************)
\* C20: a cleanup pass removes exactly the records whose last_seen is more
\* than the timeout (300 s) before the time of the pass, and leaves every
\* other record as it was.
C20_CleanupRemovesOlder ==
    trk_pass.made =>
        trk_pass.after = {p \in trk_pass.before : ~(trk_pass.now - p[2] > CleanupTimeout)}

\* The set of the elements of a sequence.
Range(seq) == {seq[i] : i \in 1..Len(seq)}

\* C21: the registry holds at most one record per address; an announce
\* inserts the record {addr, last_seen} for a new address or replaces the
\* record of that address, and changes no other record; a list-peers request
\* returns exactly the records in the registry, each once.
C21_OneRecordPerAddress ==
    /\ \A p, q \in trk_peers : p[1] = q[1] => p = q
    /\ trk_wrote.made =>
          /\ trk_wrote.after =
                {p \in trk_wrote.before : p[1] # trk_wrote.addr}
                    \cup {<<trk_wrote.addr, trk_wrote.last_seen>>}
          /\ trk_peers = trk_wrote.after
    /\ trk_listed.made =>
          /\ Range(trk_listed.peers) = trk_peers
          /\ Len(trk_listed.peers) = Cardinality(trk_peers)

\* an announce has replaced the record of an address while another address
\* had a record in the registry
C21_Witness ==
    /\ trk_wrote.made
    /\ \E p \in trk_wrote.before :
          p[1] = trk_wrote.addr /\ p[2] # trk_wrote.last_seen
    /\ \E p \in trk_wrote.before : p[1] # trk_wrote.addr

\* a list-peers request has returned two records
C21_WitnessList == trk_listed.made /\ Len(trk_listed.peers) = 2

(***************************************************************************)
(* The heartbeat emitter (server/heart_beater.rs).  HeartBeater::new       *)
(* spawns one task per tracker; each task loops: POST the announce, log a  *)
(* failure, sleep for the interval.  A task is polled from one suspension  *)
(* point to the next in one step; stop() runs on its caller's thread,      *)
(* concurrently with the tasks, and aborts the handles one after another.  *)
(*   pc:    "start" spawned and not polled yet, "posting" suspended in     *)
(*          send().await, "sleeping" suspended in sleep(interval).await,   *)
(*          "aborted" cancelled (the future is dropped)                    *)
(*   seq:   history: the announces sent to the tracker, modulo HbWindow    *)
(*   last:  history: how the last POST that completed ended                *)
(*   abort: "no" not asked; "running" abort() was called while the task    *)
(*          was being polled, so that poll runs to its next suspension     *)
(*          point; "requested" the task is cancelled when the runtime      *)
(*          next handles it                                                *)
(*   aborted_in: history: the pc at which the abort took effect            *)
(***************************************************************************)
HbTask(pc, seq, last, abort, aborted_in) ==
    [pc |-> pc, seq |-> seq, last |-> last, abort |-> abort, aborted_in |-> aborted_in]

\* tokio::spawn(async move { ... }): the task exists and has not run
HbSpawned == HbTask("start", 0, "none", "no", "")

\* the tasks, one per element of trackers in order
HbIds == 1..Len(hb_tasks)

\* the task of tracker t, if there is one
HbTaskOf(t) == IF t \in HbIds THEN hb_tasks[t] ELSE HbTask("none", 0, "none", "no", "")

InitHb ==
    /\ ExecIdle
    /\ PlanIdle
    /\ VfsIdle
    /\ SpIdle
    /\ TrkIdle
    /\ \E n \in 0..MaxHbTrackers : hb_tasks = [t \in 1..n |-> HbSpawned]
    /\ hb_stop = 0

HbCanPollSerial(task) ==
    /\ task.pc # "aborted" /\ task.abort \in {"no", "running"}
    /\ task.pc = "posting" \/ \A u \in HbIds : hb_tasks[u].pc # "posting"

\* the runtime polls a task that was not asked to abort, and lets a poll
\* that was under way when abort() was called reach its suspension point
HbCanPoll(task) == task.pc # "aborted" /\ task.abort \in {"no", "running"}

HbAfterPoll(abort) == IF abort = "running" THEN "requested" ELSE abort

\* if let Err(err) = ...send().await { eprintln!(...) }; sleep(interval).await
HbAfterPost(res) == "sleeping"

\* the top of the loop, reached at the first poll or when the sleep is over:
\* the request is built and send() is polled, which sends the announce
HbPost(t) ==
    /\ t \in HbIds
    /\ HbCanPoll(hb_tasks[t])
    /\ hb_tasks[t].pc \in {"start", "sleeping"}
    /\ hb_tasks' = [hb_tasks EXCEPT ![t] =
            HbTask("posting", (@.seq + 1) % HbWindow, @.last, HbAfterPoll(@.abort), "")]
    /\ UNCHANGED <<outsideHb, hb_stop>>

\* the POST completes, with a response ("ok") or a transport error ("err");
\* the error is printed and the task goes to sleep either way
HbPostDone(t, res) ==
    /\ t \in HbIds
    /\ HbCanPoll(hb_tasks[t])
    /\ hb_tasks[t].pc = "posting"
    /\ hb_tasks' = [hb_tasks EXCEPT ![t] =
            HbTask(HbAfterPost(res), @.seq, res, HbAfterPoll(@.abort), "")]
    /\ UNCHANGED <<outsideHb, hb_stop>>

\* stop() is called
HbStop ==
    /\ hb_stop = 0
    /\ hb_stop' = 1
    /\ UNCHANGED <<outsideHb, hb_tasks>>

HbAbortSleepingOnly(task, polled) ==
    IF task.pc = "sleeping"
    THEN [task EXCEPT !.abort = IF polled THEN "running" ELSE "requested"]
    ELSE task

\* handle.abort(): the task is marked; it is cancelled at once if it is
\* suspended, and after the poll under way if it is being polled
HbAbort(task, polled) ==
    [task EXCEPT !.abort = IF polled THEN "running" ELSE "requested"]

\* for handle in self.handles.iter() { handle.abort(); }: one iteration
HbStopAbort(polled) ==
    /\ hb_stop \in HbIds
    /\ hb_tasks' = [hb_tasks EXCEPT ![hb_stop] = HbAbort(@, polled)]
    /\ hb_stop' = hb_stop + 1
    /\ UNCHANGED outsideHb

\* the runtime handles a task marked for abort: its future is dropped, and
\* with it the pending sleep or the pending POST
HbAbortEffect(t) ==
    /\ t \in HbIds
    /\ hb_tasks[t].abort = "requested"
    /\ hb_tasks[t].pc # "aborted"
    /\ hb_tasks' = [hb_tasks EXCEPT ![t] =
            HbTask("aborted", @.seq, @.last, @.abort, @.pc)]
    /\ UNCHANGED <<outsideHb, hb_stop>>

NextHb ==
    \/ \E t \in 1..MaxHbTrackers : HbPost(t)
    \/ \E t \in 1..MaxHbTrackers, res \in {"ok", "err"} : HbPostDone(t, res)
    \/ HbStop
    \/ \E polled \in BOOLEAN : HbStopAbort(polled)
    \/ \E t \in 1..MaxHbTrackers : HbAbortEffect(t)

SpecHeartbeat == InitHb /\ [][NextHb]_vars

\* What the runtime guarantees: a task that can run is polled (the first
\* poll, the end of a sleep, the cancellation of a task marked for abort, the
\* rest of a poll under way), and stop(), once called, runs to its end.
\* Nothing makes a POST complete: the client is built with
\* reqwest::Client::new(), which sets no timeout.
HbFairness ==
    /\ \A t \in 1..MaxHbTrackers :
          /\ WF_vars(HbPost(t))
          /\ WF_vars(HbAbortEffect(t))
          /\ WF_vars(\E res \in {"ok", "err"} :
                        HbPostDone(t, res) /\ HbTaskOf(t).abort = "running")
    /\ WF_vars(\E polled \in BOOLEAN : HbStopAbort(polled))

SpecHeartbeatFair == SpecHeartbeat /\ HbFairness

(***************************************************************************)
(* Properties of the heartbeat emitter.                                    *)
(***************************************************************************)
\* a task that nobody asked to abort is in its loop
HbNeverExits ==
    \A t \in HbIds : hb_tasks[t].abort = "no" => hb_tasks[t].pc # "aborted"

\* while stop() is not called, the sleep that follows a failed POST ends in
\* the next announce
HbNextAfterFailure ==
    \A t \in 1..MaxHbTrackers, k \in 0..(HbWindow - 1) :
        (/\ hb_stop = 0
         /\ HbTaskOf(t).pc = "sleeping"
         /\ HbTaskOf(t).last = "err"
         /\ HbTaskOf(t).seq = k)
            ~> (hb_stop # 0 \/ HbTaskOf(t).seq # k)

\* C22: a heartbeat loop never terminates on its own: after a POST that
\* failed it sleeps and sends the next announce, and as long as stop() is
\* not called every tracker keeps being sent announces: whatever the number
\* of announces it was sent, one more follows.
C22_KeepsAnnouncing ==
    /\ []HbNeverExits
    /\ HbNextAfterFailure
    /\ \A t \in 1..MaxHbTrackers, k \in 0..(HbWindow - 1) :
          (t \in HbIds /\ hb_stop = 0 /\ HbTaskOf(t).seq = k)
              ~> (hb_stop # 0 \/ HbTaskOf(t).seq # k)

\* every tracker's task is cancelled
HbAllAborted == \A t \in HbIds : hb_tasks[t].pc = "aborted"

\* C23: stop() aborts every per-tracker task, whether it is suspended in its
\* sleep or in a pending POST (or was never polled): once stop() is called
\* every task ends up aborted, and a task on which the abort has taken
\* effect sends no further announce and never runs again.
C23_StopAborts ==
    /\ (hb_stop # 0) ~> HbAllAborted
    /\ [][\A t \in 1..MaxHbTrackers :
            HbTaskOf(t).pc = "aborted" => HbTaskOf(t)' = HbTaskOf(t)]_vars

\* stop() has returned and its aborts have taken effect, on one task in its
\* sleep and on another in a pending POST, each after announces were sent
C23_Witness ==
    /\ hb_stop = Len(hb_tasks) + 1
    /\ HbAllAborted
    /\ \E t, u \in HbIds :
          /\ hb_tasks[t].aborted_in = "sleeping"
          /\ hb_tasks[u].aborted_in = "posting"
          /\ hb_tasks[t].seq # 0

(***************************************************************************)
(* Further properties of the executor.                                     *)
(***************************************************************************)
\* the tasks spawned, and the tasks whose await has completed, in order
LogTasks(ev) ==
    LET F[i \in 0..Len(exec_log)] ==
            IF i = 0 THEN <<>>
            ELSE IF exec_log[i].ev = ev THEN Append(F[i - 1], exec_log[i].task)
            ELSE F[i - 1]
    IN  F[Len(exec_log)]

\* the action of task t ended in failure: it returned an error or panicked
Failed(t) == tasks[t].res \in {"err", "panic"}

\* C24: once execute_actions has awaited a task that failed, it spawns no
\* further action; every task already spawned is still awaited before
\* execute_actions returns, and it returns an error.
C24_StopsAfterFailure ==
    /\ \A i, j \in 1..Len(exec_log) :
          (i < j /\ exec_log[i].ev = "await" /\ Failed(exec_log[i].task))
              => exec_log[j].ev # "spawn"
    /\ epc = "done" =>
          /\ \A t \in TaskIds : Spawned(t) => t \in Range(LogTasks("await"))
          /\ (\E t \in Range(LogTasks("await")) : Failed(t)) => exec_result = "Err"

\* C25: every task execute_actions spawned is awaited exactly once before it
\* returns, whether the tasks succeed or fail; no task is cancelled: a task
\* whose await completed ran to its end; the tasks are spawned in plan order
\* and awaited in the order they were spawned.
C25_AwaitedOnceInOrder ==
    LET spawned == LogTasks("spawn")
        awaited == LogTasks("await")
    IN  /\ spawned = [i \in 1..Len(spawned) |-> i]
        /\ Range(spawned) = {t \in TaskIds : Spawned(t)}
        /\ Len(awaited) <= Len(spawned)
        /\ awaited = SubSeq(spawned, 1, Len(awaited))
        /\ \A t \in Range(awaited) : tasks[t].pc = "done" /\ tasks[t].res # "none"
        /\ \A t \in TaskIds : tasks[t].pc \notin {"unspawned", "done"} => tasks[t].res = "none"
        /\ epc = "done" => awaited = spawned

\* execute_actions has returned after two tasks were in flight together, one
\* of which panicked
C25_Witness ==
    /\ epc = "done"
    /\ Len(LogTasks("await")) = 2
    /\ exec_log[2].ev = "spawn"
    /\ \E t \in TaskIds : tasks[t].res = "panic"

\* C28: executing a plan never modifies it: the action list and the shared
\* peer list stay what they were; a Download only takes a snapshot of the
\* peer list, which is the list itself.
C28_PlanUnchanged ==
    /\ [][actions' = actions /\ peers' = peers]_vars
    /\ [](\A t \in TaskIds :
            tasks[t].peers_vec # <<>> => (IsDownload(t) /\ tasks[t].peers_vec = peers))

\* execute_actions has returned Ok for a plan of two actions, after a Download
\* took its snapshot of a list of several peers
C28_Witness ==
    /\ epc = "done"
    /\ exec_result = "Ok"
    /\ Len(peers) >= 2
    /\ Len(actions) = 2
    /\ \E t \in TaskIds : tasks[t].peers_vec = peers /\ tasks[t].res = "ok"

\* C29: no lock is held across a suspension point: the progress mutex is
\* taken, updated and released in one synchronous step per chunk, and the
\* read lock of the peer list is released before the first network request.
C29_NoLockAcrossAwait ==
    \A t \in TaskIds : tasks[t].held_at_await = {}

\* a Download has taken its snapshot, received a chunk that filled the
\* buffer and written it to the file, and waits for the next chunk
C29_Witness ==
    \E t \in TaskIds :
        /\ tasks[t].pc = "chunk"
        /\ tasks[t].peers_vec # <<>>
        /\ tasks[t].received # <<>>
        /\ tasks[t].buffer = <<>>
        /\ files[actions[t].path] # <<>>
        /\ files[actions[t].path] # NoFile

(***************************************************************************)
(* Further properties of the planner.                                      *)
(***************************************************************************)
\* the peers that answered the tree query with a view
AnsweredPeers == {queries[i].peer : i \in Answered}

\* C26 as stated: the modulus N of the rotation of a returned plan is the
\* number of distinct peer addresses discovered from the trackers.
C26_ModulusIsDiscovered ==
    PlanOk =>
        \A k \in 1..Len(PlanDownloads) :
            PlanDownloads[k].peer_id = (k - 1) % Len(plan_peers)

\* C26: the modulus N of the rotation of a returned plan is the number of
\* discovered peers that answered the tree query with a view, which is the
\* length of the plan's peer list and at most the number of distinct
\* addresses discovered.
C26_ModulusIsAnswered ==
    PlanOk =>
        LET n == Cardinality(AnsweredPeers)
        IN  /\ 1 <= n /\ n <= Len(plan_peers)
            /\ n = Len(plan_result.peers)
            /\ \A k \in 1..Len(PlanDownloads) :
                  PlanDownloads[k].peer_id = (k - 1) % n

\* a plan of two Downloads made when one of two discovered peers answered
C26_Witness ==
    /\ PlanOk
    /\ Len(plan_peers) = 2
    /\ Cardinality(AnsweredPeers) = 1
    /\ Len(PlanDownloads) = 2

\* C27: failures are collected, not propagated: plan succeeds whenever the
\* trackers listed at least one peer, at least one discovered peer answered
\* the tree query with a view and all the views returned are equal; when
\* every peer query fails, plan fails with the MultiError of those failures.
C27_FailuresCollected ==
    (ppc = "done" /\ plan_peers # <<>>) =>
        /\ (/\ Answered # {}
            /\ \A i, j \in Answered : TreeEq(queries[i].tree, queries[j].tree))
              => plan_result.status = "Ok"
        /\ Answered = {} =>
              /\ plan_result.status = "Err"
              /\ plan_result.error = "MultiError"
              /\ plan_result.errs = query_errs
              /\ Len(query_errs) = Len(plan_peers)
              /\ \A i \in DOMAIN query_errs : query_errs[i][1] = plan_peers[i]

\* a plan made from two trackers and two discovered peers, one of which
\* failed to answer
C27_Witness ==
    /\ PlanOk
    /\ Len(tracker_urls) = 2
    /\ Len(plan_peers) = 2
    /\ Len(query_errs) = 1

\* plan has failed with the errors of the two peers discovered
C27_WitnessAllFail ==
    /\ ppc = "done"
    /\ Len(plan_peers) = 2
    /\ plan_result.error = "MultiError"
    /\ Len(plan_result.errs) = 2

(***************************************************************************)
(* Further properties of the virtual filesystem.                           *)
(***************************************************************************)
\* C30: add inserts the nodes in post-order: in every state of a
\* VirtualFileSystem reached by calls of add (failed ones included, and
\* whatever seal does afterwards) the children of each directory node are
\* nodes whose index is smaller than the directory's own, so that the one
\* pass of seal in index order meets every child before its parent.
C30_ChildrenBeforeParent ==
    \A id \in Ids(items) :
        items[id + 1].type = "Dir" =>
            \A k \in 1..Len(items[id + 1].children) :
                /\ items[id + 1].children[k] \in Ids(items)
                /\ items[id + 1].children[k] < id

\* add has inserted a directory that holds a directory that holds an entry
C30_Witness ==
    /\ md5_to_id = {}
    /\ \E id \in Ids(items) :
          /\ items[id + 1].type = "Dir"
          /\ \E k \in 1..Len(items[id + 1].children) :
                LET c == items[id + 1].children[k]
                IN  /\ c \in Ids(items)
                    /\ items[c + 1].type = "Dir"
                    /\ items[c + 1].children # <<>>

\* the digests of the nodes ids, as a bag
Md5Bag(ids) ==
    [d \in {items[ids[i] + 1].md5 : i \in DOMAIN ids} |->
        Cardinality({i \in DOMAIN ids : items[ids[i] + 1].md5 = d})]

DirIds == {id \in Ids(items) : items[id + 1].type = "Dir"}

\* C31: the digest of a sealed directory depends only on the multiset of
\* its children's digests: in whatever order the scan had returned the
\* children, seal would have given the directory the digest it has, and two
\* directories whose children carry the same digests have the same digest.
C31_DigestOrderIndependent ==
    JustSealed =>
        /\ \A id \in DirIds :
              \A o \in Orders(Range(items[id + 1].children)) :
                  DirMd5(items, SortByMd5(items, o)) = items[id + 1].md5
        /\ \A a, b \in DirIds :
              Md5Bag(items[a + 1].children) = Md5Bag(items[b + 1].children)
                  => items[a + 1].md5 = items[b + 1].md5

\* a sealed directory of two children with different digests that the scan
\* returned in descending order of digest
C31_Witness ==
    /\ JustSealed
    /\ \E id \in DirIds :
          /\ Len(items[id + 1].children) = 2
          /\ items[id + 1].children[1] > items[id + 1].children[2]
          /\ items[items[id + 1].children[1] + 1].md5 # items[items[id + 1].children[2] + 1].md5

\* the file nodes of digest md5
FileNodesOf(md5) == {id \in NodesOf(md5) : items[id + 1].type = "File"}

\* C35: in a sealed VFS, for every file node f, file_path(f.digest) returns
\* the path of a file node of that digest and lookup(f.digest) returns a
\* File view, also when several nodes share the digest.
C35_FileDigestsResolve ==
    (Sealed /\ FileNodesOf(vfs_reply.md5) # {}) =>
        /\ vfs_reply.call = "file_path" =>
              /\ vfs_reply.status = "Ok"
              /\ \E id \in FileNodesOf(vfs_reply.md5) : items[id + 1].path = vfs_reply.path
        /\ vfs_reply.call = "lookup" =>
              /\ vfs_reply.status = "Some"
              /\ vfs_reply.view.type = "File"

\* the last operation was a seal that failed while digesting the files
JustFailedSeal ==
    /\ vfs_ops # <<>>
    /\ vfs_ops[Len(vfs_ops)].op = "seal"
    /\ vfs_ops[Len(vfs_ops)].error = "io"

\* C38: a seal that fails in the file-digest phase leaves the digest map
\* empty and every directory's digest and children order untouched, so the
\* VFS is still unsealed: lookup and file_path find nothing, and a later
\* seal is not rejected as already sealed.
C38_FailedSealLeavesUnsealed ==
    /\ JustFailedSeal =>
          /\ md5_to_id = {}
          /\ \A id \in DirIds :
                /\ items[id + 1].md5 = ""
                /\ \A i, j \in DOMAIN items[id + 1].children :
                      i < j => items[id + 1].children[i] < items[id + 1].children[j]
          /\ vfs_reply.call = "lookup" => vfs_reply.status = "None"
          /\ vfs_reply.call = "file_path" => vfs_reply.status = "File not found"
    /\ \A i \in Seals :
          (vfs_ops[i].error = "io" /\ (i + 1) \in Seals)
              => vfs_ops[i + 1].error # "VirtualFileSystem has been sealed"

\* a seal failed on an unreadable file after it had digested another file
\* of a directory, a second seal followed it, and a lookup found nothing
C38_Witness ==
    /\ JustFailedSeal
    /\ Cardinality(Seals) = 2
    /\ \A i \in Seals : vfs_ops[i].error = "io"
    /\ \E i \in Seals : vfs_ops[i].changed
    /\ \E id \in DirIds : Len(items[id + 1].children) = 2
    /\ vfs_reply.call = "lookup"

\* C32: /query and /download without an md5 parameter answer 400; /query
\* answers 404 for a digest no node has and the Lookup view of a node of
\* that digest otherwise; /download answers 404 for a digest no node has,
\* 500 for the digest of a directory and the bytes of a file of that digest
\* for the digest of a file.
C32_Responses ==
    LET d == svr_reply.md5
    IN  /\ (svr_reply.route # "none" /\ d = NoParam) => svr_reply.status = 400
        /\ (svr_reply.route = "query" /\ d # NoParam) =>
              IF NodesOf(d) = {} THEN svr_reply.status = 404
              ELSE /\ svr_reply.status = 200
                   /\ \E id \in NodesOf(d) : svr_reply.json = IdToLookup(items, id)
        /\ (svr_reply.route = "download" /\ d # NoParam) =>
              /\ NodesOf(d) = {} => svr_reply.status = 404
              /\ (\E id \in NodesOf(d) : items[id + 1].type = "Dir") => svr_reply.status = 500
              /\ FileNodesOf(d) # {} =>
                    /\ svr_reply.status = 200
                    /\ \E id \in FileNodesOf(d) :
                          svr_reply.body = HostEntry(host_roots, items[id + 1].path).content

\* the task of tracker t is at the top of its loop or in its sleep, and
\* nobody asked it to abort
HbReady(t) == HbTaskOf(t).pc \in {"start", "sleeping"} /\ HbTaskOf(t).abort = "no"

\* C33: the loops of different trackers are independent: a step of one
\* tracker's task changes no other tracker's task, a task that is ready to
\* announce can do so whatever the other tasks are doing, and while stop()
\* is not called a task that is not itself in a pending POST sends its next
\* announce, also when the POSTs to the other trackers fail or never
\* complete.
C33_TrackersIndependent ==
    /\ [][\A t, u \in 1..MaxHbTrackers :
            (t # u /\ HbTaskOf(u)' # HbTaskOf(u)) => HbTaskOf(t)' = HbTaskOf(t)]_vars
    /\ [](\A t \in 1..MaxHbTrackers : (t \in HbIds /\ HbReady(t)) => ENABLED HbPost(t))
    /\ \A t \in 1..MaxHbTrackers, k \in 0..(HbWindow - 1) :
          (t \in HbIds /\ hb_stop = 0 /\ HbReady(t) /\ HbTaskOf(t).seq = k)
              ~> (hb_stop # 0 \/ HbTaskOf(t).seq # k)

\* one tracker's first POST is still pending (or its POSTs fail) while
\* another tracker was sent HbWindow announces
C33_Witness ==
    /\ hb_stop = 0
    /\ \E t, u \in HbIds :
          /\ hb_tasks[u].pc = "posting" /\ hb_tasks[u].seq = 1 /\ hb_tasks[u].last = "none"
          /\ hb_tasks[t].seq = 0 /\ hb_tasks[t].last = "ok" /\ hb_tasks[t].pc = "sleeping"

\* C34: if execute_actions returned Ok, a file exists at the output path of
\* every Download whose bytes have the expected digest, and the directory
\* of every MakeDir exists.
C34_OkMeansComplete ==
    (epc = "done" /\ exec_result = "Ok") =>
        \A t \in TaskIds :
            /\ IsDownload(t) =>
                  /\ files[actions[t].path] # NoFile
                  /\ Md5Of(files[actions[t].path]) = actions[t].md5
            /\ actions[t].kind = "MakeDir" => actions[t].path \in dirs

\* C36: under concurrent announces for the same address the last_seen
\* stored for that address never decreases: the timestamp of an announce is
\* taken before the write lock is acquired (so it is not later than the
\* time of the write), and the write of an announce leaves the record with
\* the latest of the timestamps written for the address.
C36_LastSeenNeverDecreases ==
    /\ \A a \in trk_announces : a[2] <= trk_now
    /\ trk_wrote.made =>
          /\ trk_wrote.last_seen <= trk_now
          /\ \A p \in trk_wrote.before : \A q \in trk_wrote.after :
                (p[1] = trk_wrote.addr /\ q[1] = trk_wrote.addr) => p[2] <= q[2]

\* the registry holds the record written by the announce of addr at ts
TrkHas(addr, ts) == <<addr, ts>> \in trk_peers

\* C37: a peer whose announces keep reaching the tracker is never removed by
\* the cleanup: a pass removes no record that is younger than the timeout
\* when the pass runs, and every list-peers answer contains every record of
\* the registry; a peer that stops announcing is eventually removed: a
\* record old enough to expire within the time modelled does not stay in
\* the registry for ever.
C37_ListedWhileAnnouncing ==
    /\ [](trk_pass.made =>
            \A p \in trk_pass.before :
                (p[2] <= trk_now /\ trk_now - p[2] < CleanupTimeout) => p \in trk_pass.after)
    /\ [](trk_listed.made => trk_peers \subseteq Range(trk_listed.peers))
    /\ \A addr \in TrkAddrs, ts \in 0..(MaxTime - CleanupTimeout) :
          TrkHas(addr, ts) ~> ~TrkHas(addr, ts)

====
